---- MODULE Spec2Model ----
(***************************************************************************)
(* A model of the go-errors package: the Error entity, its clone and wrap  *)
(* operations, and the ErrorCollector (Add, Reset, Merge, statistics),     *)
(* once as whole operations of one caller and once as lock-protected       *)
(* steps of several concurrent workers.                                    *)
(*                                                                         *)
(* Go values of reference type (Error pointers, slices, maps, locations)   *)
(* are cells of `heap`, named by small integers; Nil is the nil reference. *)
(* The cells allocated together with an Error (the backing array of its    *)
(* ValidationErrors, its Metadata map, its Location and the backing array  *)
(* of its StackTrace) carry the name of that Error.                        *)
(***************************************************************************)
EXTENDS Integers, Sequences, FiniteSets, TLC

VARIABLES
    heap,        \* the Go heap: live names and the contents of the cells
    errors,      \* c.errors: sequence of *Error (Nil for a nil pointer)
    maxErrors,   \* c.maxErrors
    strictMode,  \* c.strictMode
    op,          \* the operation that returned last
    ret,         \* what it returned
    added,       \* history: the entries stored since construction or Reset
    mu,          \* c.mu: [writer: worker or 0, readers: set of workers]
    pc,          \* position of each worker inside its call
    frame,       \* locals of each worker's call
    retryErr,    \* the RetryableError a caller holds: BaseError, retryable, baseDelay
    Verbose      \* the package variable Verbose

vars == <<heap, errors, maxErrors, strictMode, op, ret, added, mu, pc, frame,
         retryErr, Verbose>>

-----------------------------------------------------------------------------
(* Bounds of the model *)

MaxCap == 3        \* largest configured maxErrors
MaxAdds == 4       \* entries stored between two Resets while history is kept
MaxTime == 2       \* instants time.Now() can return
NumAdders == 2     \* concurrent workers calling Add
NumReaders == 1    \* concurrent workers calling read operations
AddsPerWorker == 2 \* Add calls each adding worker issues
CloneCap == 2      \* largest maxErrors of a collector whose results the caller writes to

MaxPtr == MaxAdds + 2

Nil == 0
Ptr == 1..MaxPtr
Times == 1..MaxTime

-----------------------------------------------------------------------------
(* Categories and severities *)

CategoryValidation == "validation"
CategoryExternal == "external"
CategoryInternal == "internal"

SeverityDebug == 0
SeverityInfo == 1
SeverityWarning == 2
SeverityError == 3
SeverityCritical == 4
SeverityFatal == 5
Severities == SeverityDebug..SeverityFatal

\* severity of an Error built by New (the Severity field and its default)
DefaultSeverity == SeverityError

-----------------------------------------------------------------------------
(* error values: the Go interface `error` *)

NoError == [kind |-> "nil"]                      \* the nil interface
ErrorValue(p) == [kind |-> "error", ptr |-> p]   \* a *Error, p = Nil: typed nil
ForeignError(m) == [kind |-> "foreign", msg |-> m] \* fmt.Errorf(m), errors.New(m)

FieldError(f, m) == [Field |-> f, Message |-> m]

EmptyMap == [k \in {} |-> Nil]

\* the zero Error struct
ZeroError ==
    [Category |-> "", Code |-> 0, TextCode |-> "",
     Severity |-> SeverityDebug, Message |-> "",
     Source |-> NoError, ValidationErrors |-> Nil, Metadata |-> Nil,
     Timestamp |-> 0, Location |-> Nil, StackTrace |-> Nil]

EmptyHeap ==
    [live |-> {},
     errs |-> [p \in Ptr |-> ZeroError],
     arrs |-> [p \in Ptr |-> <<>>],
     maps |-> [p \in Ptr |-> EmptyMap],
     locs |-> [p \in Ptr |-> 0],
     stks |-> [p \in Ptr |-> <<>>]]

\* the name the next allocation gets
NewPtr(h) == CHOOSE p \in Ptr \ h.live : \A q \in Ptr \ h.live : p <= q
CanAlloc(h) == Ptr \ h.live # {}

-----------------------------------------------------------------------------
(* garbage collection: cells no root reaches are released *)

SourcePtrs(h, S) ==
    {h.errs[p].Source.ptr : p \in {q \in S : h.errs[q].Source.kind = "error"}} \ {Nil}

RECURSIVE ReachErrs(_, _)
ReachErrs(h, S) ==
    LET T == S \cup SourcePtrs(h, S)
    IN IF T = S THEN S ELSE ReachErrs(h, T)

Collect(h, roots) ==
    LET E == ReachErrs(h, roots \ {Nil})
        A == {h.errs[p].ValidationErrors : p \in E} \ {Nil}
        M == {h.errs[p].Metadata : p \in E} \ {Nil}
        L == {h.errs[p].Location : p \in E} \ {Nil}
        S == {h.errs[p].StackTrace : p \in E} \ {Nil}
    IN [live |-> E \cup A \cup M \cup L \cup S,
        errs |-> [p \in Ptr |-> IF p \in E THEN h.errs[p] ELSE ZeroError],
        arrs |-> [p \in Ptr |-> IF p \in A THEN h.arrs[p] ELSE <<>>],
        maps |-> [p \in Ptr |-> IF p \in M THEN h.maps[p] ELSE EmptyMap],
        locs |-> [p \in Ptr |-> IF p \in L THEN h.locs[p] ELSE 0],
        stks |-> [p \in Ptr |-> IF p \in S THEN h.stks[p] ELSE <<>>]]

\* The names themselves mean nothing: Rename(h, pi) is the same heap with
\* every cell p called pi[p].
Inverse(pi) == [p \in Ptr |-> CHOOSE q \in Ptr : pi[q] = p]

RenamePtr(pi, p) == IF p = Nil THEN Nil ELSE pi[p]

RenameError(pi, e) ==
    [e EXCEPT !.ValidationErrors = RenamePtr(pi, @),
              !.Metadata = RenamePtr(pi, @),
              !.Location = RenamePtr(pi, @),
              !.StackTrace = RenamePtr(pi, @),
              !.Source = IF @.kind = "error" THEN ErrorValue(RenamePtr(pi, @.ptr))
                         ELSE @]

Rename(h, pi) ==
    LET inv == Inverse(pi)
    IN [live |-> {pi[p] : p \in h.live},
        errs |-> [p \in Ptr |-> RenameError(pi, h.errs[inv[p]])],
        arrs |-> [p \in Ptr |-> h.arrs[inv[p]]],
        maps |-> [p \in Ptr |-> h.maps[inv[p]]],
        locs |-> [p \in Ptr |-> h.locs[inv[p]]],
        stks |-> [p \in Ptr |-> h.stks[inv[p]]]]

RenameSeq(pi, s) == [i \in 1..Len(s) |-> RenamePtr(pi, s[i])]

RECURSIVE Ascending(_)
Ascending(S) ==
    IF S = {} THEN <<>>
    ELSE LET m == CHOOSE x \in S : \A y \in S : x <= y
         IN <<m>> \o Ascending(S \ {m})

RECURSIVE Distinct(_, _, _)
Distinct(s, i, acc) ==
    IF i > Len(s) THEN acc
    ELSE IF s[i] = Nil \/ \E j \in 1..Len(acc) : acc[j] = s[i]
         THEN Distinct(s, i + 1, acc)
         ELSE Distinct(s, i + 1, Append(acc, s[i]))

\* the renaming that calls the cells 1, 2, ... in the order `refs` meets them,
\* then the other live cells, then the free ones
Canonical(h, refs) ==
    LET first == Distinct(refs, 1, <<>>)
        met == {first[i] : i \in 1..Len(first)}
        order == first \o Ascending(h.live \ met) \o Ascending(Ptr \ (h.live \cup met))
    IN [p \in Ptr |-> CHOOSE i \in 1..Len(order) : order[i] = p]

-----------------------------------------------------------------------------
(* the Error entity *)

\* captureLocation: a new ErrorLocation for the Error being built at q
CallerLine == 1
captureLocation(h, q) == [h EXCEPT !.locs[q] = CallerLine]

\* New(message, category) at the fresh name q, at instant t
New(h, q, message, category, t) ==
    LET h1 == captureLocation(h, q)
    IN [h1 EXCEPT !.live = @ \cup {q},
                  !.errs[q] = [ZeroError EXCEPT !.Category = category,
                                                !.Severity = DefaultSeverity,
                                                !.Message = message,
                                                !.Timestamp = t,
                                                !.Location = q]]

\* NewValidation(message, fieldErrors...) at the fresh name q
NewValidation(h, q, message, fieldErrors, t) ==
    [h EXCEPT !.live = @ \cup {q},
              !.arrs[q] = fieldErrors,
              !.errs[q] = [ZeroError EXCEPT !.Category = CategoryValidation,
                                            !.Severity = DefaultSeverity,
                                            !.Message = message,
                                            !.ValidationErrors =
                                                IF fieldErrors = <<>> THEN Nil ELSE q,
                                            !.Timestamp = t]]

\* e.WithSeverity(s), e.GetSeverity()
WithSeverity(h, e, s) == [h EXCEPT !.errs[e].Severity = s]
GetSeverity(h, e) == h.errs[e].Severity

\* e.WithMetadata(meta): maps.Copy into e.Metadata, made when nil
WithMetadata(h, e, meta) ==
    LET old == IF h.errs[e].Metadata = Nil THEN EmptyMap
               ELSE h.maps[h.errs[e].Metadata]
        m == IF h.errs[e].Metadata = Nil THEN e ELSE h.errs[e].Metadata
    IN [h EXCEPT !.errs[e].Metadata = m, !.maps[m] = meta @@ old]

\* CaptureStackTrace(1): the frames of the callers, by line
CaptureStackTrace == <<[Line |-> CallerLine], [Line |-> CallerLine + 1]>>

\* e.WithStackTrace()
WithStackTrace(h, e) ==
    [h EXCEPT !.errs[e].StackTrace = e, !.stks[e] = CaptureStackTrace]

\* a copy of the struct alone: the backing array and the map stay shared
CloneStructOnly(h, e, q) ==
    [h EXCEPT !.live = @ \cup {q}, !.errs[q] = h.errs[e]]

\* e.Clone() of a non-nil e into the fresh name q: a shallow copy of the
\* struct with a new backing array and a new map
Clone(h, e, q) ==
    LET src == h.errs[e]
        va == src.ValidationErrors
        md == src.Metadata
    IN [h EXCEPT !.live = @ \cup {q},
                 !.errs[q] = [src EXCEPT !.ValidationErrors = IF va # Nil THEN q ELSE Nil,
                                         !.Metadata = IF md # Nil THEN q ELSE Nil],
                 !.arrs[q] = IF va # Nil THEN h.arrs[va] ELSE <<>>,
                 !.maps[q] = IF md # Nil THEN h.maps[md] ELSE EmptyMap]

\* errors.As(err, &customErr): the first *Error of err's chain
As(err) ==
    IF err.kind = "error" THEN [ok |-> TRUE, ptr |-> err.ptr]
    ELSE [ok |-> FALSE, ptr |-> Nil]

\* err.Error() of a foreign error
ErrorString(err) == err.msg

\* Wrap(source, category, message) for a non-nil source that is no *Error
WrapForeign(h, q, source, category, message, t) ==
    LET h1 == captureLocation(h, q)
    IN [h1 EXCEPT !.live = @ \cup {q},
                  !.errs[q] = [ZeroError EXCEPT !.Category = category,
                                                !.Severity = DefaultSeverity,
                                                !.Message = message,
                                                !.Source = source,
                                                !.Timestamp = t,
                                                !.Location = q]]

\* a Wrap of an Error that hands back the Error it was given, renamed
WrapInPlace(h, q, source, category, message, t) ==
    IF source = NoError THEN [heap |-> h, ptr |-> Nil, panic |-> FALSE]
    ELSE IF As(source).ok
    THEN IF As(source).ptr = Nil THEN [heap |-> h, ptr |-> Nil, panic |-> TRUE]
         ELSE LET e == As(source).ptr
              IN [heap |-> [h EXCEPT !.errs[e].Message = message \o ": " \o @],
                  ptr |-> e, panic |-> FALSE]
    ELSE [heap |-> WrapForeign(h, q, source, category, message, t),
          ptr |-> q, panic |-> FALSE]

\* Wrap(source, category, message), a new Error being built at q: nil for a
\* nil source; for an Error its Clone with the message put in front (the
\* Clone of a nil Error pointer is nil and the write to its Message panics);
\* else a new Error holding the source
Wrap(h, q, source, category, message, t) ==
    IF source = NoError THEN [heap |-> h, ptr |-> Nil, panic |-> FALSE]
    ELSE IF As(source).ok
    THEN IF As(source).ptr = Nil THEN [heap |-> h, ptr |-> Nil, panic |-> TRUE]
         ELSE LET e == As(source).ptr
                  h1 == Clone(h, e, q)
              IN [heap |-> [h1 EXCEPT !.errs[q].Message =
                                          message \o ": " \o h.errs[e].Message],
                  ptr |-> q, panic |-> FALSE]
    ELSE [heap |-> WrapForeign(h, q, source, category, message, t),
          ptr |-> q, panic |-> FALSE]

-----------------------------------------------------------------------------
(* the collector: statistics *)

HasNilEntry(errs) == \E i \in 1..Len(errs) : errs[i] = Nil

\* stats[k]++
Incr(stats, k) ==
    IF k \in DOMAIN stats THEN [stats EXCEPT ![k] = @ + 1] ELSE (k :> 1) @@ stats

RECURSIVE StatsLoop(_, _, _)
StatsLoop(keys, i, stats) ==
    IF i > Len(keys) THEN stats ELSE StatsLoop(keys, i + 1, Incr(stats, keys[i]))

\* categoryStatsUnsafe, for a sequence without nil entry
categoryStatsUnsafe(h, errs) ==
    StatsLoop([i \in 1..Len(errs) |-> h.errs[errs[i]].Category], 1, EmptyMap)

\* severityDistributionUnsafe, for a sequence without nil entry
severityDistributionUnsafe(h, errs) ==
    StatsLoop([i \in 1..Len(errs) |-> GetSeverity(h, errs[i])], 1, EmptyMap)

\* the orders in which `range` may visit the keys of a map
Orders(S) ==
    {o \in [1..Cardinality(S) -> S] : \A i, j \in 1..Cardinality(S) : o[i] = o[j] => i = j}

RECURSIVE MostCommonLoop(_, _, _, _, _)
MostCommonLoop(stats, order, i, mostCommon, maxCount) ==
    IF i > Len(order) THEN mostCommon
    ELSE IF stats[order[i]] > maxCount
         THEN MostCommonLoop(stats, order, i + 1, order[i], stats[order[i]])
         ELSE MostCommonLoop(stats, order, i + 1, mostCommon, maxCount)

\* mostCommonCategoryUnsafe, `order` being the order the map is ranged over
mostCommonCategoryUnsafe(h, errs, order) ==
    MostCommonLoop(categoryStatsUnsafe(h, errs), order, 1, CategoryInternal, 0)

RECURSIVE HighestLoop(_, _, _)
HighestLoop(order, i, highest) ==
    IF i > Len(order) THEN highest
    ELSE HighestLoop(order, i + 1, IF order[i] > highest THEN order[i] ELSE highest)

\* a search that starts from the default severity
HighestSeverityFromDefault(order) == HighestLoop(order, 1, DefaultSeverity)

\* the highest severity among the keys of severityStats
HighestSeverity(order) == HighestLoop(order, 1, SeverityDebug)

-----------------------------------------------------------------------------
(* what a call returns *)

RetNone == [kind |-> "none"]
RetBool(b) == [kind |-> "bool", ok |-> b]
RetPtr(p) == [kind |-> "ptr", ptr |-> p]
RetInt(n) == [kind |-> "int", n |-> n]
RetCategory(c) == [kind |-> "category", category |-> c]
RetStats(m) == [kind |-> "stats", stats |-> m]
RetResponse(p) == [kind |-> "response", error |-> p]
RetNilResponse == [kind |-> "nilresponse"]
RetSlice(s) == [kind |-> "slice", elems |-> s]
Panic == [kind |-> "panic"]

-----------------------------------------------------------------------------
(* the collector: Add, Reset, Merge *)

\* a capacity check that never refuses
AddCheckAlwaysRing(errs, max, strict) ==
    IF Len(errs) >= max
    THEN IF Len(errs) = 0 THEN "panic" ELSE "evict"
    ELSE "room"

\* the capacity check of Add: what Add does before it stores
AddCheck(errs, max, strict) ==
    IF Len(errs) >= max
    THEN IF strict THEN "refuse"
         ELSE IF Len(errs) = 0 THEN "panic"   \* c.errors[1:] of an empty slice
         ELSE "evict"
    ELSE "room"

\* an eviction that drops the newest entry
EvictNewest(errs) == SubSeq(errs, 1, Len(errs) - 1)

\* c.errors[1:]: the oldest entry leaves
Evict(errs) == Tail(errs)

\* a conversion that files every error under internal, the caller's Error too
ConvertRecategorises(h, q, err, t) ==
    IF As(err).ok
    THEN [heap |-> [h EXCEPT !.errs[As(err).ptr].Category = CategoryInternal],
          ptr |-> As(err).ptr]
    ELSE [heap |-> WrapForeign(h, q, err, CategoryInternal, ErrorString(err), t),
          ptr |-> q]

\* the conversion of Add: err itself when it is an Error, else Wrap at q
Convert(h, q, err, t) ==
    IF As(err).ok THEN [heap |-> h, ptr |-> As(err).ptr]
    ELSE [heap |-> WrapForeign(h, q, err, CategoryInternal, ErrorString(err), t),
          ptr |-> q]

\* an Add that checks the capacity before it looks at err
AddChecksNilLast(h, errs, max, strict, err, q, t) ==
    LET chk == AddCheck(errs, max, strict)
    IN IF chk = "refuse" THEN [heap |-> h, errors |-> errs, ret |-> RetBool(FALSE)]
       ELSE IF err = NoError THEN [heap |-> h, errors |-> errs, ret |-> RetBool(TRUE)]
       ELSE IF chk = "panic" THEN [heap |-> h, errors |-> errs, ret |-> Panic]
       ELSE LET kept == IF chk = "evict" THEN Evict(errs) ELSE errs
                c == Convert(h, q, err, t)
            IN [heap |-> c.heap, errors |-> Append(kept, c.ptr), ret |-> RetBool(TRUE)]

\* c.Add(err), q being the next free name and t the instant
Add(h, errs, max, strict, err, q, t) ==
    IF err = NoError THEN [heap |-> h, errors |-> errs, ret |-> RetBool(TRUE)]
    ELSE LET chk == AddCheck(errs, max, strict)
             kept == IF chk = "evict" THEN Evict(errs) ELSE errs
             c == Convert(h, q, err, t)
         IN CASE chk = "refuse" -> [heap |-> h, errors |-> errs, ret |-> RetBool(FALSE)]
              [] chk = "panic" -> [heap |-> h, errors |-> errs, ret |-> Panic]
              [] OTHER -> [heap |-> c.heap, errors |-> Append(kept, c.ptr),
                           ret |-> RetBool(TRUE)]

\* a Reset that keeps the entries
ResetNothing(errs) == errs

\* c.Reset(): c.errors[:0]
Reset(errs) == SubSeq(errs, 1, 0)

ValidationErrorsOf(h, e) ==
    IF h.errs[e].ValidationErrors = Nil THEN <<>>
    ELSE h.arrs[h.errs[e].ValidationErrors]

\* a collection that puts each entry's list in front of the earlier ones
RECURSIVE CollectValidationPrepend(_, _, _, _)
CollectValidationPrepend(h, errs, i, all) ==
    IF i > Len(errs) THEN all
    ELSE CollectValidationPrepend(h, errs, i + 1, ValidationErrorsOf(h, errs[i]) \o all)

RECURSIVE CollectValidation(_, _, _, _)
CollectValidation(h, errs, i, all) ==
    IF i > Len(errs) THEN all
    ELSE CollectValidation(h, errs, i + 1, all \o ValidationErrorsOf(h, errs[i]))

MergeMessage == "Multiple errors occurred"

\* the timestamp of the newest entry
AggregatedAtNewest(h, errs) == h.errs[errs[Len(errs)]].Timestamp

\* the timestamp Merge records as aggregated_at
AggregatedAt(h, errs) == h.errs[errs[1]].Timestamp

\* the aggregate Merge builds at q from two or more entries
Aggregate(h, errs, q, t, catOrder, sevOrder) ==
    LET categoryStats == categoryStatsUnsafe(h, errs)
        severityStats == severityDistributionUnsafe(h, errs)
        highestSeverity == HighestSeverity(sevOrder)
        mostCommonCategory == mostCommonCategoryUnsafe(h, errs, catOrder)
        h1 == New(h, q, MergeMessage, mostCommonCategory, t)
        h2 == WithSeverity(h1, q, highestSeverity)
        h3 == WithMetadata(h2, q, [error_count |-> Len(errs),
                                   category_stats |-> categoryStats,
                                   severity_stats |-> severityStats,
                                   aggregated_at |-> AggregatedAt(h, errs)])
        all == CollectValidation(h, errs, 1, <<>>)
    IN IF Len(all) > 0
       THEN [h3 EXCEPT !.errs[q].ValidationErrors = q, !.arrs[q] = all]
       ELSE h3

\* c.Merge(), q being the next free name and t the instant
Merge(h, errs, q, t, catOrder, sevOrder) ==
    IF Len(errs) = 0 THEN [heap |-> h, ret |-> RetPtr(Nil)]
    ELSE IF Len(errs) = 1
         THEN IF errs[1] = Nil THEN [heap |-> h, ret |-> RetPtr(Nil)]
              ELSE [heap |-> Clone(h, errs[1], q), ret |-> RetPtr(q)]
    ELSE IF HasNilEntry(errs) THEN [heap |-> h, ret |-> Panic]
    ELSE [heap |-> Aggregate(h, errs, q, t, catOrder, sevOrder), ret |-> RetPtr(q)]

\* c.mergeUnsafe(): Merge without the lock
mergeUnsafe(h, errs, q, t, catOrder, sevOrder) ==
    IF Len(errs) = 0 THEN [heap |-> h, ret |-> RetPtr(Nil)]
    ELSE IF Len(errs) = 1
         THEN IF errs[1] = Nil THEN [heap |-> h, ret |-> RetPtr(Nil)]
              ELSE [heap |-> Clone(h, errs[1], q), ret |-> RetPtr(q)]
    ELSE IF HasNilEntry(errs) THEN [heap |-> h, ret |-> Panic]
    ELSE [heap |-> Aggregate(h, errs, q, t, catOrder, sevOrder), ret |-> RetPtr(q)]

\* e.ToErrorResponse(includeStack, stackTrace): the response holds e itself
ErrorToErrorResponse(h, e, includeStack, stackTrace) ==
    [h EXCEPT !.errs[e].StackTrace = IF includeStack THEN stackTrace ELSE Nil]

\* c.ToErrorResponse(includeStack)
ToErrorResponse(h, errs, q, t, catOrder, sevOrder, includeStack) ==
    IF Len(errs) = 0 THEN [heap |-> h, ret |-> RetNilResponse]
    ELSE IF Len(errs) = 1
         THEN IF errs[1] = Nil THEN [heap |-> h, ret |-> Panic]
              ELSE [heap |-> ErrorToErrorResponse(h, errs[1], includeStack,
                                                  h.errs[errs[1]].StackTrace),
                    ret |-> RetResponse(errs[1])]
    ELSE LET m == mergeUnsafe(h, errs, q, t, catOrder, sevOrder)
         IN IF m.ret = Panic THEN m
            ELSE IF m.ret.ptr = Nil THEN [heap |-> m.heap, ret |-> RetNilResponse]
            ELSE [heap |-> ErrorToErrorResponse(m.heap, m.ret.ptr, includeStack,
                                                m.heap.errs[m.ret.ptr].StackTrace),
                  ret |-> RetResponse(m.ret.ptr)]

\* the orders the two maps of Merge can be ranged over, one for each outcome
\* the loop over the map can have: orders with the same outcome lead to the
\* same state
CategoryOrders(h, errs) ==
    IF HasNilEntry(errs) THEN {<<>>}
    ELSE LET orders == Orders(DOMAIN categoryStatsUnsafe(h, errs))
             outcomes == {mostCommonCategoryUnsafe(h, errs, o) : o \in orders}
         IN {CHOOSE o \in orders : mostCommonCategoryUnsafe(h, errs, o) = v :
                v \in outcomes}
SeverityOrders(h, errs) ==
    IF HasNilEntry(errs) THEN {<<>>}
    ELSE LET orders == Orders(DOMAIN severityDistributionUnsafe(h, errs))
             outcomes == {HighestSeverity(o) : o \in orders}
         IN {CHOOSE o \in orders : HighestSeverity(o) = v : v \in outcomes}

-----------------------------------------------------------------------------
(* the callers: the errors they build and hand to the collector *)

\* Errors a caller builds with New(...).WithSeverity(...) or
\* NewValidation(...).WithSeverity(...), at the instant Timestamp
Inputs ==
    { [ctor |-> "NewValidation", Message |-> "Validation failed",
       Category |-> CategoryValidation, Severity |-> SeverityWarning,
       Fields |-> <<FieldError("name", "required")>>, Timestamp |-> 2,
       Meta |-> EmptyMap, Stack |-> FALSE],
      [ctor |-> "NewValidation", Message |-> "Validation failed",
       Category |-> CategoryValidation, Severity |-> SeverityError,
       Fields |-> <<FieldError("email", "invalid format"),
                    FieldError("email", "required")>>, Timestamp |-> 1,
       Meta |-> EmptyMap, Stack |-> FALSE],
      [ctor |-> "New", Message |-> "upstream down",
       Category |-> CategoryExternal, Severity |-> SeverityCritical,
       Fields |-> <<>>, Timestamp |-> 1,
       Meta |-> EmptyMap, Stack |-> FALSE] }

\* what a caller builds at q from a template: a constructor and then the
\* fluent setters the template asks for
Build(h, q, in) ==
    LET h1 == IF in.ctor = "New"
              THEN New(h, q, in.Message, in.Category, in.Timestamp)
              ELSE NewValidation(h, q, in.Message, in.Fields, in.Timestamp)
        h2 == WithSeverity(h1, q, in.Severity)
        h3 == IF in.Meta = EmptyMap THEN h2 ELSE WithMetadata(h2, q, in.Meta)
    IN IF in.Stack THEN WithStackTrace(h3, q) ELSE h3

\* the arguments of Add: a built Error, a foreign error (wrapped by Add at
\* the latest instant), the nil interface; TypedNilArg is a nil Error pointer
AddArgs ==
    {[kind |-> "built", tmpl |-> in] : in \in Inputs}
    \cup {[kind |-> "foreign", msg |-> "boom", t |-> MaxTime]}
    \cup {[kind |-> "nil"]}
TypedNilArg == [kind |-> "typednil"]

ArgError(arg, q) ==
    CASE arg.kind = "built" -> ErrorValue(q)
      [] arg.kind = "foreign" -> ForeignError(arg.msg)
      [] arg.kind = "typednil" -> ErrorValue(Nil)
      [] OTHER -> NoError

ArgTime(arg) == IF arg.kind = "foreign" THEN arg.t ELSE 1

\* the Error pointers a state refers to
SeqPtrs(s) == {s[i] : i \in 1..Len(s)}
Roots(errs, r, hist, fr) ==
    SeqPtrs(errs) \cup SeqPtrs(hist)
    \cup (IF r.kind = "ptr" THEN {r.ptr} ELSE {})
    \cup (IF r.kind = "response" THEN {r.error} ELSE {})
    \cup (IF r.kind = "slice" THEN SeqPtrs(r.elems) ELSE {})
    \cup {fr[w].err : w \in DOMAIN fr}

Workers == 1..(NumAdders + NumReaders)
Adders == 1..NumAdders
Readers == Workers \ Adders

IdleFrame == [err |-> Nil, load |-> <<>>, calls |-> 0, ret |-> RetNone]
Unlocked == [writer |-> Nil, readers |-> {}]

\* a nil RetryableError pointer
NoRetryable == [BaseError |-> Nil, retryable |-> FALSE, baseDelay |-> 0]

Call(name, arg) == [name |-> name, arg |-> arg]
NoArg == [kind |-> ""]

-----------------------------------------------------------------------------
(* one caller: every operation is a whole call *)

Capacities == (0 - 1)..MaxCap

Init ==
    /\ heap = EmptyHeap
    /\ errors = <<>>
    /\ maxErrors \in Capacities
    /\ strictMode \in BOOLEAN
    /\ op = Call("NewCollector", NoArg)
    /\ ret = RetNone
    /\ added = <<>>
    /\ mu = Unlocked
    /\ pc = [w \in Workers |-> "idle"]
    /\ frame = [w \in Workers |-> IdleFrame]
    /\ retryErr = NoRetryable
    /\ Verbose = FALSE

RetPtrs(r) ==
    IF r.kind = "ptr" THEN <<r.ptr>>
    ELSE IF r.kind = "response" THEN <<r.error>>
    ELSE IF r.kind = "slice" THEN r.elems ELSE <<>>
RenameRet(pi, r) ==
    IF r.kind = "ptr" THEN RetPtr(RenamePtr(pi, r.ptr))
    ELSE IF r.kind = "response" THEN RetResponse(RenamePtr(pi, r.error))
    ELSE IF r.kind = "slice" THEN RetSlice(RenameSeq(pi, r.elems)) ELSE r

\* the state a whole call leaves: what it built and returned, collected and
\* named canonically
Commit(h, errs, r, hist) ==
    LET hc == Collect(h, Roots(errs, r, hist, frame))
        pi == Canonical(hc, hist \o errs \o RetPtrs(r))
    IN /\ heap' = Rename(hc, pi)
       /\ errors' = RenameSeq(pi, errs)
       /\ ret' = RenameRet(pi, r)
       /\ added' = RenameSeq(pi, hist)

\* the heap once the caller has dropped the result of its previous call
Released == Collect(heap, Roots(errors, RetNone, added, frame))

\* c.Add(arg); with `track` the stored entry is appended to the history
CallAdd(arg, track) ==
    /\ CanAlloc(Released)
    /\ track => Len(added) < MaxAdds
    /\ LET q == NewPtr(Released)
           h0 == IF arg.kind = "built" THEN Build(Released, q, arg.tmpl) ELSE Released
           err == ArgError(arg, q)
           r == Add(h0, errors, maxErrors, strictMode, err, q, ArgTime(arg))
           stored == r.ret = RetBool(TRUE) /\ err # NoError
           hist == IF track /\ stored
                   THEN Append(added, r.errors[Len(r.errors)]) ELSE added
       IN Commit(r.heap, r.errors, r.ret, hist)
    /\ op' = Call("Add", arg)
    /\ UNCHANGED <<maxErrors, strictMode, mu, pc, frame, retryErr, Verbose>>

CallReset ==
    /\ Commit(heap, Reset(errors), RetNone, <<>>)
    /\ op' = Call("Reset", [kind |-> "", dropped |-> Len(errors)])
    /\ UNCHANGED <<maxErrors, strictMode, mu, pc, frame, retryErr, Verbose>>

\* a read that allocates nothing
Read(name, r) ==
    /\ Commit(heap, errors, r, added)
    /\ op' = Call(name, NoArg)
    /\ UNCHANGED <<maxErrors, strictMode, mu, pc, frame, retryErr, Verbose>>

\* a read with an argument
ReadWith(name, arg, r) ==
    /\ Commit(heap, errors, r, added)
    /\ op' = Call(name, arg)
    /\ UNCHANGED <<maxErrors, strictMode, mu, pc, frame, retryErr, Verbose>>

CallCount == Read("Count", RetInt(Len(errors)))

CallHasErrors == Read("HasErrors", RetBool(Len(errors) > 0))

CallCategoryStats ==
    Read("CategoryStats",
         IF HasNilEntry(errors) THEN Panic
         ELSE RetStats(categoryStatsUnsafe(heap, errors)))

CallSeverityDistribution ==
    Read("SeverityDistribution",
         IF HasNilEntry(errors) THEN Panic
         ELSE RetStats(severityDistributionUnsafe(heap, errors)))

CallMostCommonCategory ==
    \E order \in CategoryOrders(heap, errors) :
        Read("MostCommonCategory",
             IF HasNilEntry(errors) THEN Panic
             ELSE RetCategory(mostCommonCategoryUnsafe(heap, errors, order)))

CallMerge ==
    /\ CanAlloc(Released)
    /\ \E t \in Times, catOrder \in CategoryOrders(heap, errors),
          sevOrder \in SeverityOrders(heap, errors) :
          LET r == Merge(Released, errors, NewPtr(Released), t, catOrder, sevOrder)
          IN Commit(r.heap, errors, r.ret, added)
    /\ op' = Call("Merge", NoArg)
    /\ UNCHANGED <<maxErrors, strictMode, mu, pc, frame, retryErr, Verbose>>

CallToErrorResponse ==
    /\ CanAlloc(Released)
    /\ \E t \in Times, catOrder \in CategoryOrders(heap, errors),
          sevOrder \in SeverityOrders(heap, errors), includeStack \in BOOLEAN :
          LET r == ToErrorResponse(Released, errors, NewPtr(Released), t, catOrder,
                                   sevOrder, includeStack)
          IN Commit(r.heap, errors, r.ret, added)
    /\ op' = Call("ToErrorResponse", NoArg)
    /\ UNCHANGED <<maxErrors, strictMode, mu, pc, frame, retryErr, Verbose>>

Next ==
    \/ \E arg \in AddArgs : CallAdd(arg, FALSE)
    \/ CallReset
    \/ CallCount
    \/ CallHasErrors
    \/ CallCategoryStats
    \/ CallSeverityDistribution
    \/ CallMostCommonCategory
    \/ CallMerge
    \/ CallToErrorResponse

Spec == Init /\ [][Next]_vars

-----------------------------------------------------------------------------
(* one caller that adds and resets, the entries it stored being remembered
   in `added`: there the names of the entries are their order of arrival *)

RingArgs ==
    {a \in AddArgs : a.kind = "built" => a.tmpl.ctor = "NewValidation"}

NextRing ==
    \/ \E arg \in RingArgs : CallAdd(arg, TRUE)
    \/ CallReset

SpecRing == Init /\ [][NextRing]_vars

-----------------------------------------------------------------------------
(* one caller that merges and then writes through the Error Merge returned *)

CloneInputs ==
    { [ctor |-> "NewValidation", Message |-> "Validation failed",
       Category |-> CategoryValidation, Severity |-> SeverityWarning,
       Fields |-> <<FieldError("name", "required")>>, Timestamp |-> 1,
       Meta |-> [user |-> "u1"], Stack |-> TRUE],
      [ctor |-> "New", Message |-> "upstream down",
       Category |-> CategoryExternal, Severity |-> SeverityCritical,
       Fields |-> <<>>, Timestamp |-> 1,
       Meta |-> EmptyMap, Stack |-> FALSE] }

CloneArgs ==
    {[kind |-> "built", tmpl |-> in] : in \in CloneInputs}
    \cup {[kind |-> "foreign", msg |-> "boom", t |-> MaxTime]}

\* a statement of the caller on the Error its last Merge returned, `h` being
\* the heap the statement leaves
Mutate(what, h) ==
    /\ Commit(h, errors, ret, added)
    /\ op' = Call("Mutate", [kind |-> what])
    /\ UNCHANGED <<maxErrors, strictMode, mu, pc, frame, retryErr, Verbose>>

HoldsResult == op.name \in {"Merge", "Mutate"} /\ ret.kind = "ptr" /\ ret.ptr # Nil

\* m.Message = "changed"
MutateMessage ==
    /\ HoldsResult
    /\ Mutate("Message", [heap EXCEPT !.errs[ret.ptr].Message = "changed"])

\* m.WithMetadata(map[string]any{"user": "changed"})
MutateMetadata ==
    /\ HoldsResult
    /\ Mutate("Metadata", WithMetadata(heap, ret.ptr, [user |-> "changed"]))

\* m.ValidationErrors[0].Message = "changed"
MutateValidationErrors ==
    /\ HoldsResult
    /\ heap.errs[ret.ptr].ValidationErrors # Nil
    /\ Mutate("ValidationErrors",
              [heap EXCEPT !.arrs[heap.errs[ret.ptr].ValidationErrors][1].Message =
                               "changed"])

\* m.Location.Line++
MutateLocation ==
    /\ HoldsResult
    /\ heap.errs[ret.ptr].Location # Nil
    /\ heap.locs[heap.errs[ret.ptr].Location] = CallerLine
    /\ Mutate("Location",
              [heap EXCEPT !.locs[heap.errs[ret.ptr].Location] = CallerLine + 1])

\* m.StackTrace[0].Line--
MutateStackTrace ==
    /\ HoldsResult
    /\ heap.errs[ret.ptr].StackTrace # Nil
    /\ heap.stks[heap.errs[ret.ptr].StackTrace][1].Line = CallerLine
    /\ Mutate("StackTrace",
              [heap EXCEPT !.stks[heap.errs[ret.ptr].StackTrace][1].Line =
                               CallerLine - 1])

NextClone ==
    \/ \E arg \in CloneArgs : CallAdd(arg, FALSE)
    \/ CallReset
    \/ CallMerge
    \/ MutateMessage
    \/ MutateMetadata
    \/ MutateValidationErrors
    \/ MutateLocation
    \/ MutateStackTrace

\* a collector made with WithMaxErrors(n), n <= CloneCap
InitClone == Init /\ maxErrors <= CloneCap

SpecClone == InitClone /\ [][NextClone]_vars

-----------------------------------------------------------------------------
(* one caller that reads and then writes to what the read returned *)

\* the entries of errs that are in `keep`, in order: var filtered; append
RECURSIVE Filter(_, _, _, _)
Filter(errs, keep, i, filtered) ==
    IF i > Len(errs) THEN filtered
    ELSE Filter(errs, keep, i + 1,
                IF errs[i] \in keep THEN Append(filtered, errs[i]) ELSE filtered)

\* a filter that keeps what lies strictly above the minimum
FilterBySeverityAbove(h, errs, min) ==
    Filter(errs, {e \in SeqPtrs(errs) : GetSeverity(h, e) > min}, 1, <<>>)

\* the loop of FilterBySeverity
FilterBySeverity(h, errs, min) ==
    Filter(errs, {e \in SeqPtrs(errs) : GetSeverity(h, e) >= min}, 1, <<>>)

\* a retryable filter that lets Critical through
GetRetryableErrorsUpToCritical(h, errs) ==
    Filter(errs, {e \in SeqPtrs(errs) : GetSeverity(h, e) <= SeverityCritical}, 1, <<>>)

\* the loop of GetRetryableErrors
GetRetryableErrors(h, errs) ==
    Filter(errs, {e \in SeqPtrs(errs) : GetSeverity(h, e) < SeverityCritical}, 1, <<>>)

\* the loop of HasRetryableErrors: true at the first entry below Critical
HasRetryableErrors(h, errs) ==
    \E i \in 1..Len(errs) : GetSeverity(h, errs[i]) < SeverityCritical

\* c.Errors(): a new slice with the pointers of c.errors
CallErrors == Read("Errors", RetSlice(errors))

\* c.FilterBySeverity(min)
CallFilterBySeverity ==
    \E min \in Severities :
        ReadWith("FilterBySeverity", [kind |-> "", min |-> min],
             IF HasNilEntry(errors) THEN Panic
             ELSE RetSlice(FilterBySeverity(heap, errors, min)))

\* c.FilterByCategory(cat)
CallFilterByCategory ==
    \E cat \in {CategoryValidation, CategoryExternal, CategoryInternal} :
        Read("FilterByCategory",
             IF HasNilEntry(errors) THEN Panic
             ELSE RetSlice(Filter(errors,
                                  {e \in SeqPtrs(errors) : heap.errs[e].Category = cat},
                                  1, <<>>)))

\* c.GetRetryableErrors()
CallGetRetryableErrors ==
    Read("GetRetryableErrors",
         IF HasNilEntry(errors) THEN Panic
         ELSE RetSlice(GetRetryableErrors(heap, errors)))

\* c.HasRetryableErrors()
CallHasRetryableErrors ==
    Read("HasRetryableErrors",
         IF HasNilEntry(errors) THEN Panic
         ELSE RetBool(HasRetryableErrors(heap, errors)))

\* the BaseError of NewNonRetryable(message, category), handed to Add by a
\* caller that keeps the decorator: the flag stays with the decorator
NonRetryableArgs ==
    {[kind |-> "built", retryable |-> FALSE,
      tmpl |-> [ctor |-> "New", Message |-> "do not retry",
                Category |-> CategoryValidation, Severity |-> sev,
                Fields |-> <<>>, Timestamp |-> 1,
                Meta |-> EmptyMap, Stack |-> FALSE]]
        : sev \in {SeverityError, SeverityFatal}}

\* a statement of the caller on the collection its last read returned, `h`
\* and `r` being the heap and the collection the statement leaves
MutateHeld(what, h, r) ==
    /\ Commit(h, errors, r, added)
    /\ op' = Call("Mutate", [kind |-> what])
    /\ UNCHANGED <<maxErrors, strictMode, mu, pc, frame, retryErr, Verbose>>

HoldsSlice == ret.kind = "slice" /\ Len(ret.elems) > 0

\* errs[0] = nil
MutateSliceElement ==
    /\ HoldsSlice
    /\ ret.elems[1] # Nil
    /\ MutateHeld("element", heap, RetSlice([ret.elems EXCEPT ![1] = Nil]))

\* errs = errs[1:]
MutateSliceLength ==
    /\ HoldsSlice
    /\ MutateHeld("length", heap, RetSlice(Tail(ret.elems)))

\* errs[0].Message = "changed"
MutateElementField ==
    /\ HoldsSlice
    /\ ret.elems[1] # Nil
    /\ MutateHeld("field", [heap EXCEPT !.errs[ret.elems[1]].Message = "changed"], ret)

\* stats[k] = 0 for a key k of a returned map
MutateStats ==
    /\ ret.kind = "stats"
    /\ \E k \in DOMAIN ret.stats :
         /\ ret.stats[k] # 0
         /\ MutateHeld("stats", heap, RetStats([ret.stats EXCEPT ![k] = 0]))

NextRead ==
    \/ \E arg \in AddArgs : CallAdd(arg, FALSE)
    \/ CallReset
    \/ CallErrors
    \/ CallFilterBySeverity
    \/ CallFilterByCategory
    \/ CallGetRetryableErrors
    \/ CallCategoryStats
    \/ CallSeverityDistribution
    \/ MutateSliceElement
    \/ MutateSliceLength
    \/ MutateElementField
    \/ MutateStats

SpecRead == InitClone /\ [][NextRead]_vars

\* one caller that adds Errors, also the BaseError of a non-retryable
\* decorator, and asks for the entries by severity
NextFilter ==
    \/ \E arg \in AddArgs \cup NonRetryableArgs : CallAdd(arg, FALSE)
    \/ CallReset
    \/ CallFilterBySeverity
    \/ CallGetRetryableErrors
    \/ CallHasRetryableErrors

SpecFilter == Init /\ [][NextFilter]_vars

-----------------------------------------------------------------------------
(* the helpers that build an error and hand it to Add *)

\* the arguments of the helpers: AddValidation(field, message),
\* AddFieldErrors(errors...) with none or two, AddRetryable(err, category,
\* message) with a nil or a foreign err
HelperArgs ==
    { [kind |-> "AddValidation", fields |-> <<FieldError("name", "required")>>],
      [kind |-> "AddFieldErrors", fields |-> <<>>],
      [kind |-> "AddFieldErrors",
       fields |-> <<FieldError("email", "invalid format"),
                    FieldError("email", "required")>>],
      [kind |-> "AddRetryable", err |-> NoError,
       category |-> CategoryExternal, message |-> "retry later"],
      [kind |-> "AddRetryable", err |-> ForeignError("boom"),
       category |-> CategoryExternal, message |-> "retry later"] }

\* AddFieldErrors returns before it builds anything when it is given no errors
Offers(arg) == ~(arg.kind = "AddFieldErrors" /\ arg.fields = <<>>)

\* the BaseError of the RetryableError AddRetryable makes: WrapRetryable for
\* a non-nil err, NewRetryable for nil
RetryableBase(h, q, err, category, message, t) ==
    IF err # NoError THEN WrapForeign(h, q, err, category, message, t)
    ELSE New(h, q, message, category, t)

\* the Error a helper builds at q before it calls Add
HelperBuild(h, q, arg, t) ==
    IF arg.kind = "AddRetryable"
    THEN RetryableBase(h, q, arg.err, arg.category, arg.message, t)
    ELSE NewValidation(h, q, "Validation failed", arg.fields, t)

\* what a helper hands back: it has no result and drops the one of Add
HelperReturn(r) == IF r = Panic THEN Panic ELSE RetNone

\* c.AddValidation, c.AddFieldErrors, c.AddRetryable as whole calls
CallHelper(arg) ==
    /\ CanAlloc(Released)
    /\ LET q == NewPtr(Released)
           h0 == HelperBuild(Released, q, arg, 1)
           r == Add(h0, errors, maxErrors, strictMode, ErrorValue(q), q, 1)
       IN IF Offers(arg)
          THEN Commit(r.heap, r.errors, HelperReturn(r.ret), added)
          ELSE Commit(heap, errors, RetNone, added)
    /\ op' = Call(arg.kind, arg)
    /\ UNCHANGED <<maxErrors, strictMode, mu, pc, frame, retryErr, Verbose>>

CallAddValidation == \E arg \in HelperArgs : arg.kind = "AddValidation" /\ CallHelper(arg)
CallAddFieldErrors == \E arg \in HelperArgs : arg.kind = "AddFieldErrors" /\ CallHelper(arg)
CallAddRetryable == \E arg \in HelperArgs : arg.kind = "AddRetryable" /\ CallHelper(arg)

NextHelpers ==
    \/ \E arg \in AddArgs : CallAdd(arg, FALSE)
    \/ CallAddValidation
    \/ CallAddFieldErrors
    \/ CallAddRetryable
    \/ CallReset
    \/ CallCount

SpecHelpers == Init /\ [][NextHelpers]_vars

-----------------------------------------------------------------------------
(* concurrent callers: every Add and every read is the sequence of steps its
   code takes, and the steps of different workers interleave *)

\* sync.RWMutex: Lock waits for the writer and the readers to leave, RLock
\* for the writer
CanLockAlways(m) == TRUE
CanLock(m) == m.writer = Nil /\ m.readers = {}
CanRLock(m) == m.writer = Nil

Goto(w, label) == pc' = [pc EXCEPT ![w] = label]

\* the caller builds its error and calls c.Add(err)
AddCall(w) ==
    /\ pc[w] = "idle"
    /\ frame[w].calls < AddsPerWorker
    /\ CanAlloc(heap)
    /\ LET q == NewPtr(heap)
       IN /\ heap' = New(heap, q, "task failed", CategoryExternal, MaxTime)
          /\ frame' = [frame EXCEPT ![w].err = q, ![w].ret = RetNone]
          /\ added' = Append(added, q)
    /\ Goto(w, "lock")
    /\ UNCHANGED <<errors, maxErrors, strictMode, op, ret, mu, retryErr, Verbose>>

\* c.mu.Lock()
AddLock(w) ==
    /\ pc[w] = "lock"
    /\ CanLock(mu)
    /\ mu' = [mu EXCEPT !.writer = w]
    /\ Goto(w, "check")
    /\ UNCHANGED <<heap, errors, maxErrors, strictMode, op, ret, added, frame, retryErr, Verbose>>

\* the capacity check and the eviction
AddCapacity(w) ==
    /\ pc[w] = "check"
    /\ LET chk == AddCheck(errors, maxErrors, strictMode)
       IN CASE chk = "refuse" ->
                 /\ frame' = [frame EXCEPT ![w].ret = RetBool(FALSE)]
                 /\ Goto(w, "unlock")
                 /\ UNCHANGED errors
            [] chk = "panic" ->
                 /\ frame' = [frame EXCEPT ![w].ret = Panic]
                 /\ Goto(w, "unlock")
                 /\ UNCHANGED errors
            [] chk = "evict" ->
                 /\ errors' = Evict(errors)
                 /\ Goto(w, "load")
                 /\ UNCHANGED frame
            [] OTHER ->
                 /\ Goto(w, "load")
                 /\ UNCHANGED <<errors, frame>>
    /\ UNCHANGED <<heap, maxErrors, strictMode, op, ret, added, mu, retryErr, Verbose>>

\* append(c.errors, customErr) reads the slice ...
AddLoad(w) ==
    /\ pc[w] = "load"
    /\ frame' = [frame EXCEPT ![w].load = errors]
    /\ Goto(w, "store")
    /\ UNCHANGED <<heap, errors, maxErrors, strictMode, op, ret, added, mu, retryErr, Verbose>>

\* ... and c.errors = ... writes the longer one back
AddStore(w) ==
    /\ pc[w] = "store"
    /\ errors' = Append(frame[w].load, frame[w].err)
    /\ frame' = [frame EXCEPT ![w].ret = RetBool(TRUE), ![w].load = <<>>]
    /\ Goto(w, "unlock")
    /\ UNCHANGED <<heap, maxErrors, strictMode, op, ret, added, mu, retryErr, Verbose>>

\* the deferred c.mu.Unlock(); a goroutine that panicked is gone
AddUnlock(w) ==
    /\ pc[w] = "unlock"
    /\ mu' = [mu EXCEPT !.writer = Nil]
    /\ frame' = [frame EXCEPT ![w].calls = @ + 1]
    /\ Goto(w, IF frame[w].ret = Panic THEN "dead" ELSE "idle")
    /\ UNCHANGED <<heap, errors, maxErrors, strictMode, op, ret, added, retryErr, Verbose>>

\* c.Count(): c.mu.RLock()
CountRLock(w) ==
    /\ pc[w] = "idle"
    /\ CanRLock(mu)
    /\ mu' = [mu EXCEPT !.readers = @ \cup {w}]
    /\ Goto(w, "read")
    /\ UNCHANGED <<heap, errors, maxErrors, strictMode, op, ret, added, frame, retryErr, Verbose>>

\* len(c.errors)
CountRead(w) ==
    /\ pc[w] = "read"
    /\ frame' = [frame EXCEPT ![w].ret = RetInt(Len(errors))]
    /\ Goto(w, "runlock")
    /\ UNCHANGED <<heap, errors, maxErrors, strictMode, op, ret, added, mu, retryErr, Verbose>>

\* the deferred c.mu.RUnlock(); the caller takes the count and drops it
CountRUnlock(w) ==
    /\ pc[w] = "runlock"
    /\ mu' = [mu EXCEPT !.readers = @ \ {w}]
    /\ frame' = [frame EXCEPT ![w].ret = RetNone]
    /\ Goto(w, "idle")
    /\ UNCHANGED <<heap, errors, maxErrors, strictMode, op, ret, added, retryErr, Verbose>>

NextConc ==
    \/ \E w \in Adders : AddCall(w)
    \/ \E w \in Adders : AddLock(w)
    \/ \E w \in Adders : AddCapacity(w)
    \/ \E w \in Adders : AddLoad(w)
    \/ \E w \in Adders : AddStore(w)
    \/ \E w \in Adders : AddUnlock(w)
    \/ \E w \in Readers : CountRLock(w)
    \/ \E w \in Readers : CountRead(w)
    \/ \E w \in Readers : CountRUnlock(w)

SpecConc == Init /\ [][NextConc]_vars

\* c.AddValidation, c.AddFieldErrors, c.AddRetryable: the helper builds its
\* error and calls c.Add, whose steps follow; AddFieldErrors with no errors
\* returns at once
HelperCall(w, arg) ==
    /\ pc[w] = "idle"
    /\ frame[w].calls < AddsPerWorker
    /\ CanAlloc(heap)
    /\ IF Offers(arg)
       THEN LET q == NewPtr(heap)
            IN /\ heap' = HelperBuild(heap, q, arg, MaxTime)
               /\ frame' = [frame EXCEPT ![w].err = q, ![w].ret = RetNone]
               /\ added' = Append(added, q)
               /\ Goto(w, "lock")
       ELSE /\ frame' = [frame EXCEPT ![w].calls = @ + 1]
            /\ UNCHANGED <<heap, added, pc>>
    /\ UNCHANGED <<errors, maxErrors, strictMode, op, ret, mu, retryErr, Verbose>>

\* c.Reset(): c.mu.Lock()
ResetLock(w) ==
    /\ pc[w] = "idle"
    /\ frame[w].calls < AddsPerWorker
    /\ CanLock(mu)
    /\ mu' = [mu EXCEPT !.writer = w]
    /\ Goto(w, "clear")
    /\ UNCHANGED <<heap, errors, maxErrors, strictMode, op, ret, added, frame, retryErr, Verbose>>

\* c.errors = c.errors[:0]
ResetClear(w) ==
    /\ pc[w] = "clear"
    /\ errors' = Reset(errors)
    /\ Goto(w, "unlock")
    /\ UNCHANGED <<heap, maxErrors, strictMode, op, ret, added, mu, frame, retryErr, Verbose>>

\* the adders add, call the helpers and reset while the readers count
NextWorkers ==
    \/ \E w \in Adders : AddCall(w)
    \/ \E w \in Adders, arg \in HelperArgs : HelperCall(w, arg)
    \/ \E w \in Adders : AddLock(w)
    \/ \E w \in Adders : AddCapacity(w)
    \/ \E w \in Adders : AddLoad(w)
    \/ \E w \in Adders : AddStore(w)
    \/ \E w \in Adders : AddUnlock(w)
    \/ \E w \in Adders : ResetLock(w)
    \/ \E w \in Adders : ResetClear(w)
    \/ \E w \in Readers : CountRLock(w)
    \/ \E w \in Readers : CountRead(w)
    \/ \E w \in Readers : CountRUnlock(w)

SpecWorkers == Init /\ [][NextWorkers]_vars

-----------------------------------------------------------------------------
(* every operation of the collector, by its steps on c.mu *)

\* the calls that each worker makes
CallsPerWorker == 1

\* c.mu.RLock(), c.mu.RUnlock() by worker w
RLock(m, w) == [m EXCEPT !.readers = @ \cup {w}]
RUnlockForgotten(m, w) == m
RUnlock(m, w) == [m EXCEPT !.readers = @ \ {w}]

\* worker w holds c.mu
Holding(w) == mu.writer = w \/ w \in mu.readers

\* the caller builds New(...).WithStackTrace() and calls c.Add(err)
TracedAddCall(w) ==
    /\ pc[w] = "idle"
    /\ frame[w].calls < AddsPerWorker
    /\ CanAlloc(heap)
    /\ LET q == NewPtr(heap)
       IN /\ heap' = WithStackTrace(New(heap, q, "task failed", CategoryExternal,
                                        MaxTime), q)
          /\ frame' = [frame EXCEPT ![w].err = q, ![w].ret = RetNone]
          /\ added' = Append(added, q)
    /\ Goto(w, "lock")
    /\ UNCHANGED <<errors, maxErrors, strictMode, op, ret, mu, retryErr, Verbose>>

\* the operations that take the read lock for the whole call
ReadOps ==
    {"Count", "HasErrors", "Errors", "Merge", "CategoryStats", "SeverityDistribution",
     "MostCommonCategory", "FilterBySeverity", "FilterByCategory",
     "GetValidationErrors", "GetAllValidationErrors", "HasRetryableErrors",
     "GetRetryableErrors", "ToErrorResponse(true)", "ToErrorResponse(false)",
     "ToSlogAttributes"}

BodyOf(name) == "body." \o name

\* what the body of a read operation writes to memory that was there before
\* the call: ToErrorResponse on a single entry assigns the StackTrace of that
\* entry; the other bodies write to what they have made themselves
ReadWrites(name, h, errs) ==
    IF name \in {"ToErrorResponse(true)", "ToErrorResponse(false)"}
       /\ Len(errs) = 1 /\ errs[1] # Nil
    THEN ErrorToErrorResponse(h, errs[1], name = "ToErrorResponse(true)",
                              h.errs[errs[1]].StackTrace)
    ELSE h

\* c.mu.RLock() of a read operation
ReadRLock(w, name) ==
    /\ pc[w] = "idle"
    /\ frame[w].calls < CallsPerWorker
    /\ CanRLock(mu)
    /\ mu' = RLock(mu, w)
    /\ Goto(w, BodyOf(name))
    /\ UNCHANGED <<heap, errors, maxErrors, strictMode, op, ret, added, frame, retryErr, Verbose>>

\* the body of a read operation, under the read lock
ReadBody(w, name) ==
    /\ pc[w] = BodyOf(name)
    /\ heap' = ReadWrites(name, heap, errors)
    /\ Goto(w, "release")
    /\ UNCHANGED <<errors, maxErrors, strictMode, op, ret, added, mu, frame, retryErr, Verbose>>

\* the deferred c.mu.RUnlock(); the caller drops the result
ReadRUnlock(w) ==
    /\ pc[w] = "release"
    /\ mu' = RUnlock(mu, w)
    /\ frame' = [frame EXCEPT ![w].calls = @ + 1]
    /\ Goto(w, "idle")
    /\ UNCHANGED <<heap, errors, maxErrors, strictMode, op, ret, added, retryErr, Verbose>>

\* c.LogErrors(logger) with a logger: c.mu.RLock()
LogRLock(w) ==
    /\ pc[w] = "idle"
    /\ frame[w].calls < CallsPerWorker
    /\ CanRLock(mu)
    /\ mu' = RLock(mu, w)
    /\ Goto(w, "log.copy")
    /\ UNCHANGED <<heap, errors, maxErrors, strictMode, op, ret, added, frame, retryErr, Verbose>>

\* copy(errors, c.errors)
LogCopy(w) ==
    /\ pc[w] = "log.copy"
    /\ frame' = [frame EXCEPT ![w].load = errors]
    /\ Goto(w, "log.runlock")
    /\ UNCHANGED <<heap, errors, maxErrors, strictMode, op, ret, added, mu, retryErr, Verbose>>

\* c.mu.RUnlock(), before anything else is called
LogRUnlock(w) ==
    /\ pc[w] = "log.runlock"
    /\ mu' = RUnlock(mu, w)
    /\ Goto(w, "log.attrs")
    /\ UNCHANGED <<heap, errors, maxErrors, strictMode, op, ret, added, frame, retryErr, Verbose>>

\* collectorAttrs := c.ToSlogAttributes(): its c.mu.RLock()
LogAttrsRLock(w) ==
    /\ pc[w] = "log.attrs"
    /\ CanRLock(mu)
    /\ mu' = RLock(mu, w)
    /\ Goto(w, "log.stats")
    /\ UNCHANGED <<heap, errors, maxErrors, strictMode, op, ret, added, frame, retryErr, Verbose>>

\* the body of ToSlogAttributes and its deferred c.mu.RUnlock()
LogAttrsBody(w) ==
    /\ pc[w] = "log.stats"
    /\ heap' = ReadWrites("ToSlogAttributes", heap, errors)
    /\ Goto(w, "log.attrsdone")
    /\ UNCHANGED <<errors, maxErrors, strictMode, op, ret, added, mu, frame, retryErr, Verbose>>

LogAttrsRUnlock(w) ==
    /\ pc[w] = "log.attrsdone"
    /\ mu' = RUnlock(mu, w)
    /\ Goto(w, "log.write")
    /\ UNCHANGED <<heap, errors, maxErrors, strictMode, op, ret, added, frame, retryErr, Verbose>>

\* the loop over the copy that hands each entry to the logger
LogWrite(w) ==
    /\ pc[w] = "log.write"
    /\ frame' = [frame EXCEPT ![w].load = <<>>, ![w].calls = @ + 1]
    /\ Goto(w, "idle")
    /\ UNCHANGED <<heap, errors, maxErrors, strictMode, op, ret, added, mu, retryErr, Verbose>>

\* a step of worker w inside a call it has begun
Continue(w) ==
    \/ AddLock(w)
    \/ AddCapacity(w)
    \/ AddLoad(w)
    \/ AddStore(w)
    \/ AddUnlock(w)
    \/ ResetClear(w)
    \/ \E name \in ReadOps : ReadBody(w, name)
    \/ ReadRUnlock(w)
    \/ LogCopy(w)
    \/ LogRUnlock(w)
    \/ LogAttrsRLock(w)
    \/ LogAttrsBody(w)
    \/ LogAttrsRUnlock(w)
    \/ LogWrite(w)

\* a worker begins a call
Begin(w) ==
    /\ frame[w].calls < CallsPerWorker
    /\ \/ w \in Adders /\ TracedAddCall(w)
       \/ w \in Adders /\ \E arg \in HelperArgs : HelperCall(w, arg)
       \/ w \in Adders /\ ResetLock(w)
       \/ w \in Readers /\ \E name \in ReadOps : ReadRLock(w, name)
       \/ w \in Readers /\ LogRLock(w)

NextLocks == \E w \in Workers : Begin(w) \/ Continue(w)

\* a collector of one or two entries, strict or lenient
InitLocks == Init /\ maxErrors \in {1, 2}

SpecLocks == InitLocks /\ [][NextLocks]_vars

\* a worker that can take its next step takes it: the goroutines are
\* scheduled, and each makes a bounded number of calls, so that a worker
\* waiting for c.mu finds it free from some point on
SpecLive == SpecLocks /\ \A w \in Workers : WF_vars(Continue(w))

-----------------------------------------------------------------------------
(* one caller that also hands Add a nil Error pointer: c.Add(Wrap(nil, ...)),
   where the nil *Error that Wrap returns becomes a non-nil error value *)

NilArgs == AddArgs \cup {TypedNilArg}

NextNil ==
    \/ \E arg \in NilArgs : CallAdd(arg, FALSE)
    \/ CallReset
    \/ CallCount
    \/ CallHasErrors
    \/ CallErrors
    \/ CallCategoryStats
    \/ CallSeverityDistribution
    \/ CallMostCommonCategory
    \/ CallFilterByCategory
    \/ CallMerge

SpecNil == InitClone /\ [][NextNil]_vars

-----------------------------------------------------------------------------
(* the RetryableError: a BaseError with a retry flag and a base delay *)

\* time.Duration counted in milliseconds; every delay of the model is a whole
\* number of them and stays far inside the 64 bits of a Duration
Millisecond == 1
Second == 1000 * Millisecond
MaxDelay == 30 * Second

\* the loop of RetryDealy: delay *= 2 while i < attempt and delay < 30s
RECURSIVE RetryLoop(_, _, _)
RetryLoop(delay, i, attempt) ==
    IF i < attempt /\ delay < MaxDelay
    THEN RetryLoop(delay * 2, i + 1, attempt)
    ELSE delay

\* a delay that doubles once more than it should
RetryDealyFromZero(r, attempt) ==
    IF attempt <= 0 THEN r.baseDelay
    ELSE LET delay == RetryLoop(r.baseDelay, 0, attempt)
         IN IF delay > MaxDelay THEN MaxDelay ELSE delay

\* r.RetryDealy(attempt)
RetryDealy(r, attempt) ==
    IF attempt <= 0 THEN r.baseDelay
    ELSE LET delay == RetryLoop(r.baseDelay, 1, attempt)
         IN IF delay > MaxDelay THEN MaxDelay ELSE delay

\* r.IsRetryable()
IsRetryable(r) == r.retryable

\* r.WithRetryable(retryable), r.WithRetryDelay(delay)
WithRetryable(r, retryable) == [r EXCEPT !.retryable = retryable]
WithRetryDelay(r, delay) == [r EXCEPT !.baseDelay = delay]

\* NewRetryable(message, category): the BaseError is built at q
NewRetryable(q) == [BaseError |-> q, retryable |-> TRUE, baseDelay |-> 1 * Second]

\* the base delays a caller sets and the attempts it asks about
MaxAttempt == 8
Attempts == (0 - 2)..MaxAttempt
Delays ==
    {0 - Second, 0, Millisecond, 500 * Millisecond, Second, 2 * Second,
     7 * Second, MaxDelay, 40 * Second}

RetDuration(d) == [kind |-> "duration", d |-> d]

\* the fields the calls on a RetryableError leave alone
RetryFrame == UNCHANGED <<errors, maxErrors, strictMode, added, mu, pc, frame, Verbose>>

\* r := NewRetryable(message, category), the previous one dropped
CallNewRetryable ==
    /\ heap' = New(EmptyHeap, 1, "task failed", CategoryExternal, 1)
    /\ retryErr' = NewRetryable(1)
    /\ op' = Call("NewRetryable", NoArg)
    /\ ret' = RetNone
    /\ RetryFrame

\* r := NewNonRetryable(message, category)
CallNewNonRetryable ==
    /\ heap' = New(EmptyHeap, 1, "task failed", CategoryValidation, 1)
    /\ retryErr' = WithRetryable(NewRetryable(1), FALSE)
    /\ op' = Call("NewNonRetryable", NoArg)
    /\ ret' = RetNone
    /\ RetryFrame

\* another error type that has an IsRetryable() bool method
CapableError(b) == [kind |-> "capable", retryable |-> b]
\* a RetryableError pointer as an error value
RetryableValue(r) == [kind |-> "retryable", r |-> r]

\* WrapRetryable(source, category, message), the BaseError built at q
WrapRetryable(h, q, source, category, message, t) ==
    IF source = NoError THEN [heap |-> h, r |-> NoRetryable]
    ELSE LET w == Wrap(h, q, source, category, message, t)
         IN [heap |-> w.heap,
             r |-> [BaseError |-> w.ptr, retryable |-> TRUE, baseDelay |-> 1 * Second]]

\* c.AddRetryable(err, category, message): WrapRetryable for a non-nil err,
\* NewRetryable for nil, then c.Add of the BaseError
AddRetryable(h, errs, max, strict, err, category, message, q, t) ==
    LET made == IF err # NoError
                THEN WrapRetryable(h, q, err, category, message, t)
                ELSE [heap |-> New(h, q, message, category, t), r |-> NewRetryable(q)]
    IN Add(made.heap, errs, max, strict, ErrorValue(made.r.BaseError), q, t)

\* the calls of AddRetryable: err is nil, a foreign error, or an Error the
\* caller built with New("task failed", own)
RetryableCalls ==
    [kind : {"AddRetryable"}, source : {"nil", "foreign", "error"},
     own : {CategoryValidation, CategoryExternal},
     category : {CategoryValidation, CategoryExternal}, message : {"retry later"}]

CallAddRetryableOf(arg) ==
    /\ CanAlloc(Released)
    /\ LET q == NewPtr(Released)
           h0 == IF arg.source = "error"
                 THEN New(Released, q, "task failed", arg.own, 1) ELSE Released
           err == CASE arg.source = "error" -> ErrorValue(q)
                    [] arg.source = "foreign" -> ForeignError("boom")
                    [] OTHER -> NoError
       IN /\ CanAlloc(h0)
          /\ LET r == AddRetryable(h0, errors, maxErrors, strictMode, err,
                                   arg.category, arg.message, NewPtr(h0), 1)
             IN Commit(r.heap, r.errors, HelperReturn(r.ret), added)
    /\ op' = Call("AddRetryable", arg)
    /\ UNCHANGED <<maxErrors, strictMode, mu, pc, frame, retryErr, Verbose>>

NextAddRetryable ==
    \/ \E arg \in RetryableCalls : CallAddRetryableOf(arg)
    \/ CallReset
    \/ CallCount
    \/ CallErrors

SpecAddRetryable == InitClone /\ [][NextAddRetryable]_vars

\* an IsRetryableError that asks for the concrete type RetryableError
IsRetryableErrorByType(err) ==
    IF err.kind = "retryable"
    THEN IF err.r = NoRetryable THEN Panic ELSE RetBool(IsRetryable(err.r))
    ELSE RetBool(FALSE)

\* IsRetryableError(err): the type assertion to interface{ IsRetryable() bool }
\* and the call of the method, which reads through a nil RetryableError pointer
IsRetryableError(err) ==
    IF err.kind \in {"retryable", "capable"}
    THEN IF err.kind = "capable" THEN RetBool(err.retryable)
         ELSE IF err.r = NoRetryable THEN Panic
         ELSE RetBool(IsRetryable(err.r))
    ELSE RetBool(FALSE)

\* r := WrapRetryable(source, category, message), the previous one dropped
CallWrapRetryable ==
    /\ \E source \in {NoError, ForeignError("boom")} :
        LET w == WrapRetryable(EmptyHeap, 1, source, CategoryExternal, "retry later", 1)
        IN /\ heap' = w.heap
           /\ retryErr' = w.r
           /\ op' = Call("WrapRetryable", [kind |-> "", source |-> source])
    /\ ret' = RetNone
    /\ RetryFrame

\* IsRetryableError(err) for nil, a foreign error, the BaseError, the
\* RetryableError the caller holds and an error of another retryable type
CallIsRetryableError ==
    /\ \E err \in {NoError, ForeignError("boom"), ErrorValue(retryErr.BaseError),
                   RetryableValue(retryErr), CapableError(TRUE), CapableError(FALSE)} :
        /\ ret' = IsRetryableError(err)
        /\ op' = Call("IsRetryableError", [kind |-> "", err |-> err])
    /\ UNCHANGED <<heap, retryErr, Verbose>>
    /\ RetryFrame

HoldsRetryable == retryErr.BaseError # Nil

CallWithRetryable ==
    /\ HoldsRetryable
    /\ \E b \in BOOLEAN :
        /\ retryErr' = WithRetryable(retryErr, b)
        /\ op' = Call("WithRetryable", [kind |-> "", retryable |-> b])
    /\ ret' = RetNone
    /\ UNCHANGED heap
    /\ RetryFrame

CallWithRetryDelay ==
    /\ HoldsRetryable
    /\ \E d \in Delays :
        /\ retryErr' = WithRetryDelay(retryErr, d)
        /\ op' = Call("WithRetryDelay", [kind |-> "", delay |-> d])
    /\ ret' = RetNone
    /\ UNCHANGED heap
    /\ RetryFrame

\* r.BaseError.WithSeverity(s): the severity of the RetryableError is the one
\* of the Error it holds
CallWithSeverity ==
    /\ HoldsRetryable
    /\ \E s \in Severities :
        /\ heap' = WithSeverity(heap, retryErr.BaseError, s)
        /\ op' = Call("WithSeverity", [kind |-> "", severity |-> s])
    /\ ret' = RetNone
    /\ UNCHANGED retryErr
    /\ RetryFrame

CallRetryDealy ==
    /\ HoldsRetryable
    /\ \E attempt \in Attempts :
        /\ ret' = RetDuration(RetryDealy(retryErr, attempt))
        /\ op' = Call("RetryDealy", [kind |-> "", attempt |-> attempt])
    /\ UNCHANGED <<heap, retryErr, Verbose>>
    /\ RetryFrame

CallIsRetryable ==
    /\ HoldsRetryable
    /\ ret' = RetBool(IsRetryable(retryErr))
    /\ op' = Call("IsRetryable", NoArg)
    /\ UNCHANGED <<heap, retryErr, Verbose>>
    /\ RetryFrame

NextRetry ==
    \/ CallNewRetryable
    \/ CallWrapRetryable
    \/ CallIsRetryableError
    \/ CallNewNonRetryable
    \/ CallWithRetryable
    \/ CallWithRetryDelay
    \/ CallWithSeverity
    \/ CallRetryDealy
    \/ CallIsRetryable

InitRetry == Init /\ maxErrors = MaxCap /\ strictMode = FALSE
SpecRetry == InitRetry /\ [][NextRetry]_vars

-----------------------------------------------------------------------------
(* the mapper chain: MapToError and the default mappers *)

CategoryAuth == "authentication"
CategoryAuthz == "authorization"
CategoryNotFound == "not_found"
CategoryConflict == "conflict"
CategoryRateLimit == "rate_limit"
CategoryBadInput == "bad_input"
CategoryMethodNotAllowed == "method_not_allowed"

\* net/http status codes
StatusBadRequest == 400
StatusUnauthorized == 401
StatusForbidden == 403
StatusNotFound == 404
StatusMethodNotAllowed == 405
StatusConflict == 409
StatusGone == 410
StatusTooManyRequests == 429
StatusInternalServerError == 500

\* the characters of the strings the mappers read

Chars ==
    ("Invite token expired " :> <<"I", "n", "v", "i", "t", "e", " ", "t", "o", "k", "e", "n", " ", "e", "x", "p", "i", "r", "e", "d", " ">>) @@
    ("[" :> <<"[">>) @@
    ("] " :> <<"]", " ">>) @@
    ("account archived" :> <<"a", "c", "c", "o", "u", "n", "t", " ", "a", "r", "c", "h", "i", "v", "e", "d">>) @@
    ("account disabled" :> <<"a", "c", "c", "o", "u", "n", "t", " ", "d", "i", "s", "a", "b", "l", "e", "d">>) @@
    ("account is archived" :> <<"a", "c", "c", "o", "u", "n", "t", " ", "i", "s", " ", "a", "r", "c", "h", "i", "v", "e", "d">>) @@
    ("account is disabled" :> <<"a", "c", "c", "o", "u", "n", "t", " ", "i", "s", " ", "d", "i", "s", "a", "b", "l", "e", "d">>) @@
    ("account is pending" :> <<"a", "c", "c", "o", "u", "n", "t", " ", "i", "s", " ", "p", "e", "n", "d", "i", "n", "g">>) @@
    ("account is suspended" :> <<"a", "c", "c", "o", "u", "n", "t", " ", "i", "s", " ", "s", "u", "s", "p", "e", "n", "d", "e", "d">>) @@
    ("account locked" :> <<"a", "c", "c", "o", "u", "n", "t", " ", "l", "o", "c", "k", "e", "d">>) @@
    ("account lockout" :> <<"a", "c", "c", "o", "u", "n", "t", " ", "l", "o", "c", "k", "o", "u", "t">>) @@
    ("account pending" :> <<"a", "c", "c", "o", "u", "n", "t", " ", "p", "e", "n", "d", "i", "n", "g">>) @@
    ("account suspended" :> <<"a", "c", "c", "o", "u", "n", "t", " ", "s", "u", "s", "p", "e", "n", "d", "e", "d">>) @@
    ("authentication" :> <<"a", "u", "t", "h", "e", "n", "t", "i", "c", "a", "t", "i", "o", "n">>) @@
    ("authorization" :> <<"a", "u", "t", "h", "o", "r", "i", "z", "a", "t", "i", "o", "n">>) @@
    ("boom" :> <<"b", "o", "o", "m">>) @@
    ("email not verified" :> <<"e", "m", "a", "i", "l", " ", "n", "o", "t", " ", "v", "e", "r", "i", "f", "i", "e", "d">>) @@
    ("email verification required" :> <<"e", "m", "a", "i", "l", " ", "v", "e", "r", "i", "f", "i", "c", "a", "t", "i", "o", "n", " ", "r", "e", "q", "u", "i", "r", "e", "d">>) @@
    ("expired" :> <<"e", "x", "p", "i", "r", "e", "d">>) @@
    ("external" :> <<"e", "x", "t", "e", "r", "n", "a", "l">>) @@
    ("feature disabled" :> <<"f", "e", "a", "t", "u", "r", "e", " ", "d", "i", "s", "a", "b", "l", "e", "d">>) @@
    ("forbidden" :> <<"f", "o", "r", "b", "i", "d", "d", "e", "n">>) @@
    ("internal" :> <<"i", "n", "t", "e", "r", "n", "a", "l">>) @@
    ("invitation expired" :> <<"i", "n", "v", "i", "t", "a", "t", "i", "o", "n", " ", "e", "x", "p", "i", "r", "e", "d">>) @@
    ("invitation used" :> <<"i", "n", "v", "i", "t", "a", "t", "i", "o", "n", " ", "u", "s", "e", "d">>) @@
    ("invite" :> <<"i", "n", "v", "i", "t", "e">>) @@
    ("invite already used" :> <<"i", "n", "v", "i", "t", "e", " ", "a", "l", "r", "e", "a", "d", "y", " ", "u", "s", "e", "d">>) @@
    ("invite expired" :> <<"i", "n", "v", "i", "t", "e", " ", "e", "x", "p", "i", "r", "e", "d">>) @@
    ("invite used" :> <<"i", "n", "v", "i", "t", "e", " ", "u", "s", "e", "d">>) @@
    ("locked out" :> <<"l", "o", "c", "k", "e", "d", " ", "o", "u", "t">>) @@
    ("malformed token" :> <<"m", "a", "l", "f", "o", "r", "m", "e", "d", " ", "t", "o", "k", "e", "n">>) @@
    ("missing or malformed jwt" :> <<"m", "i", "s", "s", "i", "n", "g", " ", "o", "r", " ", "m", "a", "l", "f", "o", "r", "m", "e", "d", " ", "j", "w", "t">>) @@
    ("not here" :> <<"n", "o", "t", " ", "h", "e", "r", "e">>) @@
    ("password reset is rate limited" :> <<"p", "a", "s", "s", "w", "o", "r", "d", " ", "r", "e", "s", "e", "t", " ", "i", "s", " ", "r", "a", "t", "e", " ", "l", "i", "m", "i", "t", "e", "d">>) @@
    ("password reset not allowed" :> <<"p", "a", "s", "s", "w", "o", "r", "d", " ", "r", "e", "s", "e", "t", " ", "n", "o", "t", " ", "a", "l", "l", "o", "w", "e", "d">>) @@
    ("password reset rate limit" :> <<"p", "a", "s", "s", "w", "o", "r", "d", " ", "r", "e", "s", "e", "t", " ", "r", "a", "t", "e", " ", "l", "i", "m", "i", "t">>) @@
    ("password reset rate limited" :> <<"p", "a", "s", "s", "w", "o", "r", "d", " ", "r", "e", "s", "e", "t", " ", "r", "a", "t", "e", " ", "l", "i", "m", "i", "t", "e", "d">>) @@
    ("registration disabled" :> <<"r", "e", "g", "i", "s", "t", "r", "a", "t", "i", "o", "n", " ", "d", "i", "s", "a", "b", "l", "e", "d">>) @@
    ("reset not allowed" :> <<"r", "e", "s", "e", "t", " ", "n", "o", "t", " ", "a", "l", "l", "o", "w", "e", "d">>) @@
    ("reset rate limit" :> <<"r", "e", "s", "e", "t", " ", "r", "a", "t", "e", " ", "l", "i", "m", "i", "t">>) @@
    ("self registration disabled" :> <<"s", "e", "l", "f", " ", "r", "e", "g", "i", "s", "t", "r", "a", "t", "i", "o", "n", " ", "d", "i", "s", "a", "b", "l", "e", "d">>) @@
    ("signup disabled" :> <<"s", "i", "g", "n", "u", "p", " ", "d", "i", "s", "a", "b", "l", "e", "d">>) @@
    ("token already used" :> <<"t", "o", "k", "e", "n", " ", "a", "l", "r", "e", "a", "d", "y", " ", "u", "s", "e", "d">>) @@
    ("token expired" :> <<"t", "o", "k", "e", "n", " ", "e", "x", "p", "i", "r", "e", "d">>) @@
    ("token is expired" :> <<"t", "o", "k", "e", "n", " ", "i", "s", " ", "e", "x", "p", "i", "r", "e", "d">>) @@
    ("token is malformed" :> <<"t", "o", "k", "e", "n", " ", "i", "s", " ", "m", "a", "l", "f", "o", "r", "m", "e", "d">>) @@
    ("token malformed" :> <<"t", "o", "k", "e", "n", " ", "m", "a", "l", "f", "o", "r", "m", "e", "d">>) @@
    ("too many attempts" :> <<"t", "o", "o", " ", "m", "a", "n", "y", " ", "a", "t", "t", "e", "m", "p", "t", "s">>) @@
    ("too many login attempts" :> <<"t", "o", "o", " ", "m", "a", "n", "y", " ", "l", "o", "g", "i", "n", " ", "a", "t", "t", "e", "m", "p", "t", "s">>) @@
    ("unauthorized" :> <<"u", "n", "a", "u", "t", "h", "o", "r", "i", "z", "e", "d">>) @@
    ("used" :> <<"u", "s", "e", "d">>) @@
    ("user account is archived" :> <<"u", "s", "e", "r", " ", "a", "c", "c", "o", "u", "n", "t", " ", "i", "s", " ", "a", "r", "c", "h", "i", "v", "e", "d">>) @@
    ("user account is disabled" :> <<"u", "s", "e", "r", " ", "a", "c", "c", "o", "u", "n", "t", " ", "i", "s", " ", "d", "i", "s", "a", "b", "l", "e", "d">>) @@
    ("user account is pending" :> <<"u", "s", "e", "r", " ", "a", "c", "c", "o", "u", "n", "t", " ", "i", "s", " ", "p", "e", "n", "d", "i", "n", "g">>) @@
    ("user account is suspended" :> <<"u", "s", "e", "r", " ", "a", "c", "c", "o", "u", "n", "t", " ", "i", "s", " ", "s", "u", "s", "p", "e", "n", "d", "e", "d">>) @@
    ("verification expired" :> <<"v", "e", "r", "i", "f", "i", "c", "a", "t", "i", "o", "n", " ", "e", "x", "p", "i", "r", "e", "d">>) @@
    ("verification needed" :> <<"v", "e", "r", "i", "f", "i", "c", "a", "t", "i", "o", "n", " ", "n", "e", "e", "d", "e", "d">>) @@
    ("verification required" :> <<"v", "e", "r", "i", "f", "i", "c", "a", "t", "i", "o", "n", " ", "r", "e", "q", "u", "i", "r", "e", "d">>) @@
    ("verification token expired" :> <<"v", "e", "r", "i", "f", "i", "c", "a", "t", "i", "o", "n", " ", "t", "o", "k", "e", "n", " ", "e", "x", "p", "i", "r", "e", "d">>)

\* the text codes, known by their names
TextCodeAccountArchived == "TextCodeAccountArchived"
TextCodeAccountDisabled == "TextCodeAccountDisabled"
TextCodeAccountLocked == "TextCodeAccountLocked"
TextCodeAccountPending == "TextCodeAccountPending"
TextCodeAccountSuspended == "TextCodeAccountSuspended"
TextCodeFeatureDisabled == "TextCodeFeatureDisabled"
TextCodeInviteExpired == "TextCodeInviteExpired"
TextCodeInviteUsed == "TextCodeInviteUsed"
TextCodeResetNotAllowed == "TextCodeResetNotAllowed"
TextCodeResetRateLimit == "TextCodeResetRateLimit"
TextCodeTokenAlreadyUsed == "TextCodeTokenAlreadyUsed"
TextCodeTokenExpired == "TextCodeTokenExpired"
TextCodeTokenMalformed == "TextCodeTokenMalformed"
TextCodeTooManyAttempts == "TextCodeTooManyAttempts"
TextCodeVerificationExpired == "TextCodeVerificationExpired"
TextCodeVerificationRequired == "TextCodeVerificationRequired"

\* the switch of MapOnboardingErrors, case by case
OnboardingCases ==
    <<
       [any |-> {"invite expired", "invitation expired"},
        all |-> {"invite", "expired"},
        category |-> CategoryBadInput, code |-> StatusGone, textCode |-> TextCodeInviteExpired],
       [any |-> {"invite used", "invitation used", "invite already used"},
        all |-> {"invite", "used"},
        category |-> CategoryConflict, code |-> StatusConflict, textCode |-> TextCodeInviteUsed],
       [any |-> {"token already used"},
        all |-> {},
        category |-> CategoryConflict, code |-> StatusConflict, textCode |-> TextCodeTokenAlreadyUsed],
       [any |-> {"reset not allowed", "password reset not allowed"},
        all |-> {},
        category |-> CategoryAuthz, code |-> StatusForbidden, textCode |-> TextCodeResetNotAllowed],
       [any |-> {"reset rate limit", "password reset rate limit", "password reset rate limited", "password reset is rate limited"},
        all |-> {},
        category |-> CategoryRateLimit, code |-> StatusTooManyRequests, textCode |-> TextCodeResetRateLimit],
       [any |-> {"account locked", "account lockout", "locked out"},
        all |-> {},
        category |-> CategoryAuth, code |-> StatusForbidden, textCode |-> TextCodeAccountLocked],
       [any |-> {"verification required", "verification needed", "email not verified", "email verification required"},
        all |-> {},
        category |-> CategoryAuth, code |-> StatusForbidden, textCode |-> TextCodeVerificationRequired],
       [any |-> {"verification expired", "verification token expired"},
        all |-> {},
        category |-> CategoryAuth, code |-> StatusForbidden, textCode |-> TextCodeVerificationExpired],
       [any |-> {"feature disabled", "signup disabled", "registration disabled", "self registration disabled"},
        all |-> {},
        category |-> CategoryAuthz, code |-> StatusForbidden, textCode |-> TextCodeFeatureDisabled]
    >>

\* the switch of MapAuthErrors, case by case
AuthCases ==
    <<
       [any |-> {"too many attempts", "too many login attempts"},
        all |-> {},
        category |-> CategoryRateLimit, code |-> StatusTooManyRequests, textCode |-> TextCodeTooManyAttempts],
       [any |-> {"token expired", "token is expired"},
        all |-> {},
        category |-> CategoryAuth, code |-> StatusUnauthorized, textCode |-> TextCodeTokenExpired],
       [any |-> {"token malformed", "token is malformed", "malformed token", "missing or malformed jwt"},
        all |-> {},
        category |-> CategoryAuth, code |-> StatusBadRequest, textCode |-> TextCodeTokenMalformed],
       [any |-> {"account is suspended", "account suspended", "user account is suspended"},
        all |-> {},
        category |-> CategoryAuth, code |-> StatusForbidden, textCode |-> TextCodeAccountSuspended],
       [any |-> {"account is disabled", "account disabled", "user account is disabled"},
        all |-> {},
        category |-> CategoryAuth, code |-> StatusForbidden, textCode |-> TextCodeAccountDisabled],
       [any |-> {"account is archived", "account archived", "user account is archived"},
        all |-> {},
        category |-> CategoryAuth, code |-> StatusForbidden, textCode |-> TextCodeAccountArchived],
       [any |-> {"account is pending", "account pending", "user account is pending"},
        all |-> {},
        category |-> CategoryAuth, code |-> StatusForbidden, textCode |-> TextCodeAccountPending],
       [any |-> {"unauthorized", "authentication"},
        all |-> {},
        category |-> CategoryAuth, code |-> StatusUnauthorized, textCode |-> "UNAUTHORIZED"],
       [any |-> {"forbidden", "authorization"},
        all |-> {},
        category |-> CategoryAuthz, code |-> StatusForbidden, textCode |-> "FORBIDDEN"]
    >>

\* strings.ToLower, letter by letter
UpperToLower ==
    ("A" :> "a") @@
    ("B" :> "b") @@
    ("C" :> "c") @@
    ("D" :> "d") @@
    ("E" :> "e") @@
    ("F" :> "f") @@
    ("G" :> "g") @@
    ("H" :> "h") @@
    ("I" :> "i") @@
    ("J" :> "j") @@
    ("K" :> "k") @@
    ("L" :> "l") @@
    ("M" :> "m") @@
    ("N" :> "n") @@
    ("O" :> "o") @@
    ("P" :> "p") @@
    ("Q" :> "q") @@
    ("R" :> "r") @@
    ("S" :> "s") @@
    ("T" :> "t") @@
    ("U" :> "u") @@
    ("V" :> "v") @@
    ("W" :> "w") @@
    ("X" :> "x") @@
    ("Y" :> "y") @@
    ("Z" :> "z")
ToLower(s) ==
    [i \in 1..Len(s) |-> IF s[i] \in DOMAIN UpperToLower THEN UpperToLower[s[i]] ELSE s[i]]

\* strings.TrimSpace: the blanks at both ends leave
RECURSIVE TrimSpace(_)
TrimSpace(s) ==
    IF s = <<>> THEN s
    ELSE IF Head(s) = " " THEN TrimSpace(Tail(s))
    ELSE IF s[Len(s)] = " " THEN TrimSpace(SubSeq(s, 1, Len(s) - 1))
    ELSE s

\* strings.Contains
Contains(s, sub) ==
    \E i \in 0..(Len(s) - Len(sub)) : SubSeq(s, i + 1, i + Len(sub)) = sub

\* containsAny, containsAll: an empty match is skipped, and containsAll of
\* no matches is false
containsAny(msg, matches) ==
    \E m \in matches : m # "" /\ Contains(msg, Chars[m])
containsAll(msg, matches) ==
    /\ \A m \in matches : m = "" \/ Contains(msg, Chars[m])
    /\ matches # {}

\* an error that is no Error and has a StatusCode() int method
StatusError(m, code) == [kind |-> "status", msg |-> m, code |-> code]

\* err.Error() of a non-nil err as a string and as characters; the Errors
\* handed to the mappers have no text code, validation errors, source or
\* metadata, so that their text is "[category] message"
ErrorStringOf(h, err) ==
    IF err.kind = "error"
    THEN "[" \o h.errs[err.ptr].Category \o "] " \o h.errs[err.ptr].Message
    ELSE ErrorString(err)
ErrorText(h, err) ==
    IF err.kind = "error"
    THEN Chars["["] \o Chars[h.errs[err.ptr].Category] \o Chars["] "]
         \o Chars[h.errs[err.ptr].Message]
    ELSE Chars[err.msg]

\* normalizeErrorMessage(err)
normalizeErrorMessage(h, err) ==
    IF err = NoError THEN <<>> ELSE ToLower(TrimSpace(ErrorText(h, err)))

\* e.WithCode(code), e.WithTextCode(code)
WithCode(h, e, code) == [h EXCEPT !.errs[e].Code = code]
WithTextCode(h, e, code) == [h EXCEPT !.errs[e].TextCode = code]

\* the first case of a switch that the message matches, 0 for none
RECURSIVE FirstCase(_, _, _)
FirstCase(cases, msg, i) ==
    IF i > Len(cases) THEN 0
    ELSE IF containsAny(msg, cases[i].any) \/ containsAll(msg, cases[i].all) THEN i
    ELSE FirstCase(cases, msg, i + 1)

\* a mapper that classifies by message: New(err.Error(), category) with the
\* code and the text code of the first matching case, nil when none matches
MapByMessage(cases, h, q, err, t) ==
    LET i == FirstCase(cases, normalizeErrorMessage(h, err), 1)
    IN IF i = 0 THEN [heap |-> h, ptr |-> Nil]
       ELSE [heap |-> WithTextCode(
                          WithCode(New(h, q, ErrorStringOf(h, err), cases[i].category, t),
                                   q, cases[i].code),
                          q, cases[i].textCode),
             ptr |-> q]

MapOnboardingErrors(h, q, err, t) == MapByMessage(OnboardingCases, h, q, err, t)
MapAuthErrors(h, q, err, t) == MapByMessage(AuthCases, h, q, err, t)

HTTPStatusToCategory(code) ==
    CASE code = StatusNotFound -> CategoryNotFound
      [] code = StatusUnauthorized -> CategoryAuth
      [] code = StatusForbidden -> CategoryAuthz
      [] code = StatusConflict -> CategoryConflict
      [] code = StatusTooManyRequests -> CategoryRateLimit
      [] code = StatusMethodNotAllowed -> CategoryMethodNotAllowed
      [] OTHER -> IF code >= 400 /\ code < 500 THEN CategoryBadInput
                  ELSE CategoryInternal

\* strings.ToUpper(strings.ReplaceAll(http.StatusText(code), " ", "_")) for
\* the codes of the model
HTTPStatusToTextCode(code) ==
    CASE code = StatusUnauthorized -> "UNAUTHORIZED"
      [] code = StatusGone -> "GONE"
      [] code = StatusInternalServerError -> "INTERNAL_SERVER_ERROR"
      [] OTHER -> ""

\* MapHTTPErrors: errors.As to interface{ StatusCode() int }
MapHTTPErrors(h, q, err, t) ==
    IF err # NoError /\ err.kind = "status"
    THEN [heap |-> WithTextCode(
                       WithCode(New(h, q, ErrorString(err),
                                    HTTPStatusToCategory(err.code), t),
                                q, err.code),
                       q, HTTPStatusToTextCode(err.code)),
          ptr |-> q]
    ELSE [heap |-> h, ptr |-> Nil]

DefaultErrorMappers == <<"MapOnboardingErrors", "MapAuthErrors", "MapHTTPErrors">>

\* mapper(err) for a mapper of the list
ApplyMapper(mapper, h, q, err, t) ==
    CASE mapper = "MapOnboardingErrors" -> MapOnboardingErrors(h, q, err, t)
      [] mapper = "MapAuthErrors" -> MapAuthErrors(h, q, err, t)
      [] OTHER -> MapHTTPErrors(h, q, err, t)

\* the loop of MapToError: the result of the first mapper that returns a
\* non-nil Error
RECURSIVE MapLoop(_, _, _, _, _, _)
MapLoop(mappers, i, h, q, err, t) ==
    IF i > Len(mappers) THEN [heap |-> h, ptr |-> Nil]
    ELSE LET m == ApplyMapper(mappers[i], h, q, err, t)
         IN IF m.ptr # Nil THEN m ELSE MapLoop(mappers, i + 1, h, q, err, t)

\* MapToError(err, mappers): err itself when errors.As finds an Error, else
\* the first mapped result, else Wrap(...) with Code and TextCode written
\* through the pointer Wrap returned
MapToError(h, q, err, mappers, t) ==
    IF As(err).ok THEN [heap |-> h, ptr |-> As(err).ptr, panic |-> FALSE]
    ELSE LET m == MapLoop(mappers, 1, h, q, err, t)
             w == Wrap(h, q, err, CategoryInternal, "An unexpected error occurred", t)
         IN IF m.ptr # Nil THEN [heap |-> m.heap, ptr |-> m.ptr, panic |-> FALSE]
            ELSE IF w.panic \/ w.ptr = Nil THEN [heap |-> h, ptr |-> Nil, panic |-> TRUE]
            ELSE [heap |-> WithTextCode(
                               WithCode(w.heap, w.ptr, StatusInternalServerError),
                               w.ptr, "INTERNAL_ERROR"),
                  ptr |-> w.ptr, panic |-> FALSE]

\* the errors a caller hands over: nil, errors that are no Error, with and
\* without a status code, and Errors built by New
MapMessages == {"Invite token expired ", "token expired", "user account is pending",
                "boom", "not here"}
MapErrs ==
    {[kind |-> "nil"]}
    \cup {[kind |-> "foreign", msg |-> m] : m \in MapMessages}
    \cup {[kind |-> "status", msg |-> m, code |-> c] :
            m \in MapMessages, c \in {StatusUnauthorized, StatusGone,
                                      StatusInternalServerError}}
    \cup {[kind |-> "built", msg |-> m, category |-> c] :
            m \in MapMessages, c \in {CategoryInternal, CategoryAuth}}

\* the mapper lists a caller passes
MapperLists ==
    {<<>>, DefaultErrorMappers, <<"MapAuthErrors">>,
     <<"MapHTTPErrors", "MapAuthErrors", "MapOnboardingErrors">>}

\* the heap and the error value once the caller has built its argument at 1
MapHeap(arg) ==
    IF arg.kind = "built" THEN New(EmptyHeap, 1, arg.msg, arg.category, 1)
    ELSE EmptyHeap
MapErr(arg) ==
    CASE arg.kind = "nil" -> NoError
      [] arg.kind = "foreign" -> ForeignError(arg.msg)
      [] arg.kind = "status" -> StatusError(arg.msg, arg.code)
      [] OTHER -> ErrorValue(1)

\* MapToError(err, mappers), what the previous call left being dropped
CallMapToError ==
    /\ \E arg \in MapErrs, mappers \in MapperLists :
        LET r == MapToError(MapHeap(arg), 2, MapErr(arg), mappers, 1)
        IN /\ heap' = r.heap
           /\ ret' = IF r.panic THEN Panic ELSE RetPtr(r.ptr)
           /\ op' = Call("MapToError", [kind |-> arg.kind, err |-> arg,
                                       mappers |-> mappers])
    /\ UNCHANGED retryErr
    /\ RetryFrame

\* Wrap(source, category, message)
CallWrap ==
    /\ \E arg \in MapErrs :
        LET r == Wrap(MapHeap(arg), 2, MapErr(arg), CategoryExternal, "wrapped", 1)
        IN /\ heap' = r.heap
           /\ ret' = IF r.panic THEN Panic ELSE RetPtr(r.ptr)
           /\ op' = Call("Wrap", [kind |-> arg.kind, err |-> arg])
    /\ UNCHANGED retryErr
    /\ RetryFrame

NextMap ==
    \/ CallMapToError
    \/ CallWrap
    \/ CallWrapRetryable

SpecMap == InitRetry /\ [][NextMap]_vars

-----------------------------------------------------------------------------
(* one caller that holds an Error: it reads the validation errors, wraps and
   clones the Error, and writes to what the calls returned *)

\* a validation.Errors of ozzo-validation: a map from field to error
ValidationErrorsValue(m) == [kind |-> "validation", fields |-> m]

\* the messages of the errors a validation.Errors holds, by character
FieldChars ==
    (" is required " :> <<" ", "i", "s", " ", "r", "e", "q", "u", "i", "r", "e", "d", " ">>) @@
    ("is required" :> <<"i", "s", " ", "r", "e", "q", "u", "i", "r", "e", "d">>)

\* strings.TrimSpace(fieldErr.Error())
TrimmedMessage(msg) ==
    CHOOSE u \in DOMAIN FieldChars : FieldChars[u] = TrimSpace(FieldChars[msg])

\* key := field; if prefix != "" { key = prefix + "." + field }
PathKey(prefix, field) == IF prefix # "" THEN prefix \o "." \o field ELSE field

\* result[key] = value
MapPut(result, key, value) == (key :> value) @@ result

\* delete(result, key)
MapDelete(result, key) == [k \in DOMAIN result \ {key} |-> result[k]]

\* a loop over the field errors that keeps the message a key already has
RECURSIVE OwnFieldsFirstWins(_, _, _, _)
OwnFieldsFirstWins(fields, i, prefix, result) ==
    IF i > Len(fields) THEN result
    ELSE LET key == PathKey(prefix, fields[i].Field)
         IN OwnFieldsFirstWins(fields, i + 1, prefix,
                IF key \in DOMAIN result THEN result
                ELSE MapPut(result, key, fields[i].Message))

\* for _, fieldErr := range e.ValidationErrors { result[key] = fieldErr.Message }
RECURSIVE OwnFields(_, _, _, _)
OwnFields(fields, i, prefix, result) ==
    IF i > Len(fields) THEN result
    ELSE OwnFields(fields, i + 1, prefix,
             MapPut(result, PathKey(prefix, fields[i].Field), fields[i].Message))

\* for field, fieldErr := range validationErrors { result[key] = ... }: the
\* fields of a map are distinct, so the order of the range does not show
ForeignFields(source, prefix, result) ==
    LET put == [k \in {PathKey(prefix, f) : f \in DOMAIN source.fields} |->
                   TrimmedMessage(source.fields[
                       CHOOSE f \in DOMAIN source.fields : PathKey(prefix, f) = k])]
    IN put @@ result

\* e.allValidationMapWithPath(prefix): the own field errors, the fields of a
\* validation.Errors source when there are no own ones, then what the walk
\* of an Error source gives under the longer prefix, written over the rest
RECURSIVE allValidationMapWithPath(_, _, _)
allValidationMapWithPath(h, e, prefix) ==
    LET fields == ValidationErrorsOf(h, e)
        source == h.errs[e].Source
        own == OwnFields(fields, 1, prefix, EmptyMap)
        result == IF Len(fields) = 0 /\ source.kind = "validation"
                  THEN ForeignFields(source, prefix, own) ELSE own
    IN IF source.kind = "error"
       THEN LET newPrefix == IF prefix = "" THEN "source" ELSE prefix \o ".source"
            IN allValidationMapWithPath(h, source.ptr, newPrefix) @@ result
       ELSE result

\* e.ValidationMap()
ValidationMap(h, e) == allValidationMapWithPath(h, e, "")

\* the FieldErrors made of a validation.Errors, in the order of one range
\* over the map
RECURSIVE RangeFields(_, _)
RangeFields(m, todo) ==
    IF todo = {} THEN <<>>
    ELSE LET f == CHOOSE x \in todo : TRUE
         IN <<FieldError(f, TrimmedMessage(m[f]))>> \o RangeFields(m, todo \ {f})

\* e.AllValidationErrors()
RECURSIVE AllValidationErrors(_, _)
AllValidationErrors(h, e) ==
    LET fields == ValidationErrorsOf(h, e)
        source == h.errs[e].Source
        allErrors == IF Len(fields) = 0 /\ source.kind = "validation"
                     THEN fields \o RangeFields(source.fields, DOMAIN source.fields)
                     ELSE fields
    IN IF source.kind = "error"
       THEN allErrors \o AllValidationErrors(h, source.ptr)
       ELSE allErrors

\* the Errors a caller builds: the field errors of each level of the chain,
\* the source of the last level, and whether the first level is given
\* metadata and a stack trace
EntityFieldLists ==
    { <<>>,
      <<FieldError("email", "invalid format")>>,
      <<FieldError("email", "invalid format"), FieldError("email", "required")>>,
      <<FieldError("name", "required"), FieldError("email", "taken")>>,
      <<FieldError("source.email", "unreachable")>> }

MaxDepth == 2

EntityArgs ==
    [levels : UNION {[1..n -> EntityFieldLists] : n \in 1..(MaxDepth + 1)},
     bottom : {NoError, ValidationErrorsValue(("email" :> " is required "))},
     decorated : BOOLEAN]

\* &Error{Category: ..., Message: ..., ValidationErrors: fields, Source: source}
ErrorLiteral(h, p, fields, source) ==
    [h EXCEPT !.live = @ \cup {p},
              !.arrs[p] = fields,
              !.errs[p] = [ZeroError EXCEPT !.Category = CategoryValidation,
                                            !.Message = "nested",
                                            !.ValidationErrors =
                                                IF fields = <<>> THEN Nil ELSE p,
                                            !.Source = source]]

\* the chain below the first level, built from its last Error upwards
RECURSIVE EntitySources(_, _, _)
EntitySources(h, arg, i) ==
    IF i > Len(arg.levels) THEN h
    ELSE ErrorLiteral(EntitySources(h, arg, i + 1), i, arg.levels[i],
                      IF i < Len(arg.levels) THEN ErrorValue(i + 1) ELSE arg.bottom)

\* e := New("Validation failed", CategoryValidation); e.ValidationErrors =
\* fields; e.Source = source; and for a decorated one
\* e.WithMetadata(...).WithStackTrace()
EntityBuild(arg) ==
    LET h0 == EntitySources(EmptyHeap, arg, 2)
        h1 == New(h0, 1, "Validation failed", CategoryValidation, 1)
        h2 == [h1 EXCEPT !.arrs[1] = arg.levels[1],
                         !.errs[1].ValidationErrors =
                             IF arg.levels[1] = <<>> THEN Nil ELSE 1,
                         !.errs[1].Source =
                             IF Len(arg.levels) > 1 THEN ErrorValue(2) ELSE arg.bottom]
    IN IF arg.decorated
       THEN WithStackTrace(WithMetadata(h2, 1, [user |-> "u1"]), 1)
       ELSE h2

\* what no call on an Error changes
EntityFrame == UNCHANGED <<errors, maxErrors, strictMode, added, mu, pc, retryErr, Verbose>>

\* the Error the caller holds
Subject == frame[1].err

\* the caller's Error and what its last call returned
EntityRoots(r) == {Subject} \cup (IF r.kind = "ptr" THEN {r.ptr} ELSE {})

RetMap(p) == [kind |-> "map", ptr |-> p]
RetFields(s) == [kind |-> "fields", elems |-> s]

\* the caller builds the Error it holds from then on
CallEntityBuild(args) ==
    /\ Subject = Nil
    /\ \E arg \in args :
        /\ heap' = EntityBuild(arg)
        /\ op' = Call("Build", [kind |-> "", entity |-> arg])
    /\ frame' = [frame EXCEPT ![1].err = 1, ![1].calls = 0, ![1].load = <<>>]
    /\ ret' = RetPtr(1)
    /\ EntityFrame

\* m := e.ValidationMap(): make(map[string]string), while the caller still
\* holds the map its call before returned
CallValidationMap ==
    /\ Subject # Nil
    /\ LET h0 == Collect(heap, {Subject})
           h == IF ret.kind = "map"
                THEN [h0 EXCEPT !.live = @ \cup {ret.ptr},
                                !.maps[ret.ptr] = heap.maps[ret.ptr]]
                ELSE h0
           q == NewPtr(h)
       IN /\ heap' = [h EXCEPT !.live = @ \cup {q}, !.maps[q] = ValidationMap(h, Subject)]
          /\ ret' = RetMap(q)
    /\ op' = Call("ValidationMap", NoArg)
    /\ UNCHANGED frame
    /\ EntityFrame

\* all := e.AllValidationErrors()
CallAllValidationErrors ==
    /\ Subject # Nil
    /\ heap' = Collect(heap, {Subject})
    /\ ret' = RetFields(AllValidationErrors(heap, Subject))
    /\ op' = Call("AllValidationErrors", NoArg)
    /\ UNCHANGED frame
    /\ EntityFrame

\* m[key] = "changed"; delete(m, key) on the map ValidationMap returned
WriteReturnedMap ==
    /\ ret.kind = "map"
    /\ \E key \in {"email", "added"}, del \in BOOLEAN :
        /\ heap' = [heap EXCEPT !.maps[ret.ptr] =
                        IF del THEN MapDelete(@, key) ELSE MapPut(@, key, "changed")]
        /\ heap' # heap
        /\ op' = Call("WriteMap", [kind |-> "", key |-> key, del |-> del])
    /\ UNCHANGED <<ret, frame>>
    /\ EntityFrame

NextValidation ==
    \/ CallEntityBuild(EntityArgs)
    \/ CallValidationMap
    \/ CallAllValidationErrors
    \/ WriteReturnedMap

SpecValidation == InitRetry /\ [][NextValidation]_vars

-----------------------------------------------------------------------------
(* one caller that wraps and clones the Error it holds and writes to the
   Error and to the copy *)

MaxWraps == 2      \* Wrap calls in a row, each on the result of the one before
MaxWrites == 2     \* statements of the caller on the Errors it holds
MaxFields == 3     \* field errors an Error is given

\* the Errors that are wrapped and cloned
CopyArgs ==
    {arg \in EntityArgs :
        /\ Len(arg.levels) <= 2
        /\ arg.bottom = NoError
        /\ \A i \in 1..Len(arg.levels) : Len(arg.levels[i]) \in {0, 2}}

\* c := e.Clone()
CallClone ==
    /\ Subject # Nil
    /\ LET h == Collect(heap, {Subject})
           q == NewPtr(h)
       IN /\ heap' = Clone(h, Subject, q)
          /\ ret' = RetPtr(q)
    /\ op' = Call("Clone", NoArg)
    /\ frame' = [frame EXCEPT ![1].load = <<>>]
    /\ EntityFrame

\* w := Wrap(e, category, message) of the Error the caller holds, or of the
\* Error its last Wrap returned; frame[1].load lists the Errors wrapped in a row
CallWrapError ==
    /\ Subject # Nil
    /\ \E source \in {Subject} \cup (IF op.name = "Wrap" /\ ret.kind = "ptr"
                                     THEN {ret.ptr} ELSE {}) :
        /\ source # Subject => Len(frame[1].load) < MaxWraps
        /\ LET h == Collect(heap, {Subject, source})
               q == NewPtr(h)
               r == Wrap(h, q, ErrorValue(source), CategoryExternal, "context", MaxTime)
           IN /\ heap' = r.heap
              /\ ret' = IF r.panic THEN Panic ELSE RetPtr(r.ptr)
        /\ op' = Call("Wrap", [kind |-> "", source |-> source])
        /\ frame' = [frame EXCEPT ![1].load = IF source = Subject THEN <<source>>
                                              ELSE Append(@, source)]
    /\ EntityFrame

\* a statement of the caller on the Error `target`, `h` being the heap the
\* statement leaves; `of` names the call that returned the Error in ret
Write(what, target, h) ==
    /\ heap' = Collect(h, EntityRoots(ret))
    /\ op' = Call("Write", [kind |-> what, target |-> target,
                             of |-> IF op.name = "Write" THEN op.arg.of ELSE op.name])
    /\ frame' = [frame EXCEPT ![1].calls = @ + 1]
    /\ UNCHANGED ret
    /\ EntityFrame

\* the Errors the caller can write to: the one it holds and the copy
Targets ==
    IF Subject = Nil \/ frame[1].calls >= MaxWrites THEN {}
    ELSE EntityRoots(ret) \ {Nil}

\* x.ValidationErrors[0] = FieldError{...}
ReplaceValidationError ==
    \E x \in Targets :
        /\ heap.errs[x].ValidationErrors # Nil
        /\ Write("ReplaceValidationError", x,
                 [heap EXCEPT !.arrs[heap.errs[x].ValidationErrors][1] =
                                  FieldError("email", "changed")])

\* x.ValidationErrors = append(x.ValidationErrors, FieldError{...}): the
\* slice is full, the elements move to a new array
AppendValidationError ==
    \E x \in Targets :
        /\ Len(ValidationErrorsOf(heap, x)) < MaxFields
        /\ CanAlloc(heap)
        /\ LET a == NewPtr(heap)
           IN Write("AppendValidationError", x,
                    [heap EXCEPT !.live = @ \cup {a},
                                 !.arrs[a] = Append(ValidationErrorsOf(heap, x),
                                                    FieldError("phone", "added")),
                                 !.errs[x].ValidationErrors = a])

\* x.ValidationErrors = nil
RemoveValidationErrors ==
    \E x \in Targets :
        /\ heap.errs[x].ValidationErrors # Nil
        /\ Write("RemoveValidationErrors", x,
                 [heap EXCEPT !.errs[x].ValidationErrors = Nil])

\* x.WithMetadata(map[string]any{key: "changed"}): a new key or a new value
PutMetadata ==
    \E x \in Targets, key \in {"user", "trace"} :
        Write("PutMetadata", x, WithMetadata(heap, x, (key :> "changed")))

\* delete(x.Metadata, "user")
DeleteMetadata ==
    \E x \in Targets :
        /\ heap.errs[x].Metadata # Nil
        /\ "user" \in DOMAIN heap.maps[heap.errs[x].Metadata]
        /\ Write("DeleteMetadata", x,
                 [heap EXCEPT !.maps[heap.errs[x].Metadata] = MapDelete(@, "user")])

NextEntity ==
    \/ CallEntityBuild(CopyArgs)
    \/ CallClone
    \/ CallWrapError
    \/ ReplaceValidationError
    \/ AppendValidationError
    \/ RemoveValidationErrors
    \/ PutMetadata
    \/ DeleteMetadata

SpecEntity == InitRetry /\ [][NextEntity]_vars

-----------------------------------------------------------------------------
(* the text of an Error *)

\* strings.Join(parts, sep)
RECURSIVE Join(_, _)
Join(parts, sep) ==
    IF Len(parts) = 0 THEN ""
    ELSE IF Len(parts) = 1 THEN parts[1]
    ELSE parts[1] \o sep \o Join(Tail(parts), sep)

\* FieldError.Error(): fmt.Sprintf("%s: %s", e.Field, e.Message)
FieldErrorString(fe) == fe.Field \o ": " \o fe.Message

\* ValidationErrors.Error()
ValidationErrorsString(fields) ==
    IF Len(fields) = 0 THEN "validation failed"
    ELSE Join([i \in 1..Len(fields) |-> FieldErrorString(fields[i])], "; ")

\* loc.File of the callers of this model, by path element
CallerFile == <<"srv", "handlers", "user.go">>

\* loc.String() of a non-nil location: the file name after the last slash,
\* and the line
LocationString(h, l) == CallerFile[Len(CallerFile)] \o ":" \o ToString(h.locs[l])

\* an Error() that puts the source in front of the validation errors
RECURSIVE ErrorSourceFirst(_, _, _)
ErrorSourceFirst(h, e, verbose) ==
    LET x == h.errs[e]
        fields == ValidationErrorsOf(h, e)
        items == IF x.Metadata = Nil THEN 0 ELSE Cardinality(DOMAIN h.maps[x.Metadata])
        p1 == IF x.TextCode # ""
              THEN <<"[" \o x.Category \o ":" \o x.TextCode \o "] " \o x.Message>>
              ELSE <<"[" \o x.Category \o "] " \o x.Message>>
        p2 == IF x.Source # NoError
              THEN Append(p1, "source: " \o
                       (IF x.Source.kind = "error"
                        THEN ErrorSourceFirst(h, x.Source.ptr, verbose)
                        ELSE ErrorString(x.Source)))
              ELSE p1
        p3 == IF Len(fields) > 0
              THEN Append(p2, "validation: " \o ValidationErrorsString(fields))
              ELSE p2
        p4 == IF items > 0
              THEN Append(p3, "metadata: " \o ToString(items) \o " items")
              ELSE p3
        p5 == IF verbose /\ x.Location # Nil
              THEN Append(p4, "location: " \o LocationString(h, x.Location))
              ELSE p4
    IN Join(p5, "; ")

\* e.Error() of a non-nil e, `verbose` being the value of Verbose: the parts
\* in the order they are appended, joined by "; "
RECURSIVE Error(_, _, _)
Error(h, e, verbose) ==
    LET x == h.errs[e]
        fields == ValidationErrorsOf(h, e)
        items == IF x.Metadata = Nil THEN 0 ELSE Cardinality(DOMAIN h.maps[x.Metadata])
        p1 == IF x.TextCode # ""
              THEN <<"[" \o x.Category \o ":" \o x.TextCode \o "] " \o x.Message>>
              ELSE <<"[" \o x.Category \o "] " \o x.Message>>
        p2 == IF Len(fields) > 0
              THEN Append(p1, "validation: " \o ValidationErrorsString(fields))
              ELSE p1
        p3 == IF x.Source # NoError
              THEN Append(p2, "source: " \o
                       (IF x.Source.kind = "error"
                        THEN Error(h, x.Source.ptr, verbose)
                        ELSE ErrorString(x.Source)))
              ELSE p2
        p4 == IF items > 0
              THEN Append(p3, "metadata: " \o ToString(items) \o " items")
              ELSE p3
        p5 == IF verbose /\ x.Location # Nil
              THEN Append(p4, "location: " \o LocationString(h, x.Location))
              ELSE p4
    IN Join(p5, "; ")

\* the Errors whose text is asked for: struct literals as in the tests, the
\* source nil, a foreign error or an Error with a foreign source
RenderArgs ==
    [TextCode : {"", "VALIDATION_ERROR"},
     Fields : { <<>>,
                <<FieldError("name", "required")>>,
                <<FieldError("email", "invalid format"),
                  FieldError("age", "must be positive")>> },
     Source : {"nil", "foreign", "error"},
     Items : 0..2,
     Located : BOOLEAN]

\* &Error{Category: ..., TextCode: ..., Message: ..., Source: ...,
\* ValidationErrors: ..., Metadata: ..., Location: ...}
RenderBuild(arg) ==
    LET h0 == IF arg.Source = "error"
              THEN ErrorLiteral(EmptyHeap, 2, <<>>, ForeignError("connection failed"))
              ELSE EmptyHeap
        h1 == IF arg.Source = "error"
              THEN [h0 EXCEPT !.errs[2].Category = CategoryInternal,
                              !.errs[2].Message = "database error"]
              ELSE h0
        meta == IF arg.Items = 0 THEN EmptyMap
                ELSE IF arg.Items = 1 THEN [request_id |-> "req-123"]
                ELSE [user_id |-> "123", table |-> "users"]
    IN [h1 EXCEPT
          !.live = @ \cup {1},
          !.arrs[1] = arg.Fields,
          !.maps[1] = meta,
          !.locs[1] = IF arg.Located THEN CallerLine ELSE 0,
          !.errs[1] = [ZeroError EXCEPT
                          !.Category = CategoryValidation,
                          !.TextCode = arg.TextCode,
                          !.Message = "multiple validation failures",
                          !.Source = IF arg.Source = "nil" THEN NoError
                                     ELSE IF arg.Source = "foreign"
                                     THEN ForeignError("upstream validation failed")
                                     ELSE ErrorValue(2),
                          !.ValidationErrors = IF arg.Fields = <<>> THEN Nil ELSE 1,
                          !.Metadata = IF arg.Items = 0 THEN Nil ELSE 1,
                          !.Location = IF arg.Located THEN 1 ELSE Nil]]

RetString(s) == [kind |-> "string", s |-> s]

\* s := e.Error()
CallError ==
    /\ \E arg \in RenderArgs :
        /\ heap' = RenderBuild(arg)
        /\ ret' = RetString(Error(heap', 1, Verbose))
        /\ op' = Call("Error", [kind |-> "", err |-> arg])
    /\ UNCHANGED retryErr
    /\ RetryFrame

\* Verbose = true; Verbose = false
SetVerbose ==
    /\ Verbose' = ~Verbose
    /\ op' = Call("SetVerbose", NoArg)
    /\ UNCHANGED <<heap, errors, maxErrors, strictMode, ret, added, mu, pc, frame,
                   retryErr>>

NextRender ==
    \/ CallError
    \/ SetVerbose

SpecRender == InitRetry /\ [][NextRender]_vars

-----------------------------------------------------------------------------
(* what a state holds, by value *)

MetadataOf(h, e) ==
    IF h.errs[e].Metadata = Nil THEN EmptyMap ELSE h.maps[h.errs[e].Metadata]
LocationOf(h, e) ==
    IF h.errs[e].Location = Nil THEN <<>> ELSE <<h.locs[h.errs[e].Location]>>
StackTraceOf(h, e) ==
    IF h.errs[e].StackTrace = Nil THEN <<>> ELSE h.stks[h.errs[e].StackTrace]

\* the Error at p with everything it refers to
RECURSIVE Deep(_, _)
Deep(h, p) ==
    IF p = Nil THEN [nil |-> TRUE]
    ELSE LET e == h.errs[p]
         IN [nil |-> FALSE,
             Category |-> e.Category,
             Code |-> e.Code,
             TextCode |-> e.TextCode,
             Severity |-> e.Severity,
             Message |-> e.Message,
             Source |-> IF e.Source.kind = "error" THEN Deep(h, e.Source.ptr)
                        ELSE e.Source,
             ValidationErrors |-> ValidationErrorsOf(h, p),
             Metadata |-> MetadataOf(h, p),
             Timestamp |-> e.Timestamp,
             Location |-> LocationOf(h, p),
             StackTrace |-> StackTraceOf(h, p)]

Contents(h, errs) == [i \in 1..Len(errs) |-> Deep(h, errs[i])]

Held == 1..Len(errors)
HeldCategories == {heap.errs[errors[i]].Category : i \in Held}
HeldSeverities == {heap.errs[errors[i]].Severity : i \in Held}
CountOfCategory(c) == Cardinality({i \in Held : heap.errs[errors[i]].Category = c})
CountOfSeverity(s) == Cardinality({i \in Held : heap.errs[errors[i]].Severity = s})
MostFrequent ==
    {c \in HeldCategories : \A d \in HeldCategories : CountOfCategory(d) <= CountOfCategory(c)}
MaxOf(S) == CHOOSE m \in S : \A x \in S : x <= m

\* the Error a Merge or a ToErrorResponse has just returned
Summary ==
    IF ret.kind = "ptr" THEN ret.ptr
    ELSE IF ret.kind = "response" THEN ret.error ELSE Nil
Merged == op.name = "Merge" /\ Len(errors) >= 2 /\ Summary # Nil
Summarised ==
    op.name \in {"Merge", "ToErrorResponse"} /\ Len(errors) >= 2 /\ Summary # Nil

-----------------------------------------------------------------------------
(* properties of Add *)

\* every adding worker is between two calls
Returned == \A w \in Adders : pc[w] = "idle"
Occurrences(p) == Cardinality({i \in Held : errors[i] = p})

\* C1: when concurrent workers have called Add with N non-nil errors on a
\* collector with maxErrors >= N and all calls have returned, the collector
\* holds N entries and each of the N errors exactly once, and every call
\* returned true: no add is lost or duplicated
C1_ConcurrentAddsAllStored ==
    (Returned /\ maxErrors >= Len(added)) =>
        /\ Len(errors) = Len(added)
        /\ \A i \in 1..Len(added) : Occurrences(added[i]) = 1
        /\ \A w \in Adders : frame[w].calls > 0 => frame[w].ret = RetBool(TRUE)

C1_Witness ==
    /\ Returned /\ maxErrors >= Len(added)
    /\ Len(added) > NumAdders
    /\ \A w \in Adders : frame[w].calls > 0
    /\ errors # added

\* C2: in strict mode, Add of a non-nil error to a collector that already
\* holds maxErrors entries returns false and leaves the stored entries as
\* they were
C2_StrictFullAddRefused ==
    [][(op'.name = "Add" /\ op'.arg.kind # "nil" /\ strictMode /\ Len(errors) = maxErrors)
        => (ret' = RetBool(FALSE)
            /\ Contents(heap', errors') = Contents(heap, errors))]_vars

C2_Witness ==
    /\ op.name = "Add" /\ op.arg.kind # "nil"
    /\ strictMode /\ maxErrors >= 1 /\ Len(errors) = maxErrors
    /\ ret = RetBool(FALSE)

Min(a, b) == IF a <= b THEN a ELSE b
LastN(s, n) == SubSeq(s, Len(s) - n + 1, Len(s))

\* the entry at p is the argument arg of Add: the Error the caller built, or
\* a wrap whose source is the caller's foreign error
IsArg(h, p, arg) ==
    IF arg.kind = "built"
    THEN Deep(h, p) = Deep(Build(EmptyHeap, NewPtr(EmptyHeap), arg.tmpl),
                          NewPtr(EmptyHeap))
    ELSE Deep(h, p).Source = ForeignError(arg.msg)

\* C3: in lenient mode with maxErrors >= 1, Add of a non-nil error to a full
\* collector returns true, drops the oldest entry and appends the new one;
\* after k stored adds the collector holds the last min(k, maxErrors) of
\* them, in the order they were added
C3_LenientRing ==
    [][(~strictMode /\ maxErrors >= 1) =>
        /\ errors' = LastN(added', Min(Len(added'), maxErrors))
        /\ (op'.name = "Add" /\ op'.arg.kind # "nil")
            => /\ ret' = RetBool(TRUE)
               /\ Len(added') = Len(added) + 1
               /\ IsArg(heap', errors'[Len(errors')], op'.arg)
               /\ Len(errors) = maxErrors
                    => /\ Len(errors') = maxErrors
                       /\ SubSeq(errors', 1, maxErrors - 1) = Tail(errors)]_vars

C3_Witness ==
    /\ ~strictMode /\ maxErrors >= 2
    /\ op.name = "Add" /\ op.arg.kind # "nil"
    /\ Len(added) >= maxErrors + 2
    /\ Len(errors) = maxErrors

\* C11: whatever the caller does to a collection a read returned or to
\* anything it reaches (replacing or removing elements, writing a field of a
\* returned Error, writing a returned map), the entries of the collector,
\* and so what its next reads return, stay as they were
C11_ReadsExposeNothing ==
    [][op'.name = "Mutate"
        => Contents(heap', errors') = Contents(heap, errors)]_vars

\* C12: Add(nil) returns true and leaves the collector as it was, in every
\* state, a full strict collector included
C12_AddNilIsNoOp ==
    [][(op'.name = "Add" /\ op'.arg.kind = "nil")
        => /\ ret' = RetBool(TRUE)
           /\ Contents(heap', errors') = Contents(heap, errors)
           /\ maxErrors' = maxErrors /\ strictMode' = strictMode]_vars

C12_Witness ==
    /\ op.name = "Add" /\ op.arg.kind = "nil"
    /\ strictMode /\ maxErrors >= 1 /\ Len(errors) = maxErrors
    /\ ret = RetBool(TRUE)

\* the entry at p is what Add makes of its argument: the caller's Error as it
\* was built, or a new Error of category internal with the foreign error's
\* message and the foreign error as its source
IsStoredArg(h, p, arg) ==
    IF arg.kind = "built"
    THEN Deep(h, p) = Deep(Build(EmptyHeap, NewPtr(EmptyHeap), arg.tmpl),
                          NewPtr(EmptyHeap))
    ELSE /\ Deep(h, p).Category = CategoryInternal
         /\ Deep(h, p).Message = arg.msg
         /\ Deep(h, p).Source = ForeignError(arg.msg)
         /\ Deep(h, p).ValidationErrors = <<>>

\* C13: Add of a non-nil error to a collector that is not full returns true
\* and appends exactly one entry after the entries held, which stay as they
\* were: the caller's Error unmodified when the argument is an Error, else a
\* new Error of category internal with the argument's message and the
\* argument as its source; in lenient mode every Add of a non-nil error that
\* returns has stored it as the last entry
C13_AddAppendsOneEntry ==
    [][(op'.name = "Add" /\ op'.arg.kind # "nil")
        => /\ Len(errors) < maxErrors
                => /\ ret' = RetBool(TRUE)
                   /\ Len(errors') = Len(errors) + 1
                   /\ Contents(heap', SubSeq(errors', 1, Len(errors)))
                        = Contents(heap, errors)
                   /\ IsStoredArg(heap', errors'[Len(errors')], op'.arg)
           /\ (~strictMode /\ ret' # Panic)
                => /\ ret' = RetBool(TRUE)
                   /\ Len(errors') >= 1
                   /\ IsStoredArg(heap', errors'[Len(errors')], op'.arg)]_vars

C13_Witness ==
    /\ op.name = "Add" /\ op.arg.kind = "foreign"
    /\ ret = RetBool(TRUE)
    /\ Len(errors) >= 2 /\ Len(errors) <= maxErrors
    /\ heap.errs[errors[Len(errors)]].Source = ForeignError(op.arg.msg)
    /\ heap.errs[errors[1]].Category = CategoryValidation

\* what Add does on a collector made anew with the same configuration and
\* holding n entries
FreshAdd(max, strict, n, arg) ==
    IF arg.kind = "nil" THEN [ret |-> RetBool(TRUE), len |-> n]
    ELSE IF n < max THEN [ret |-> RetBool(TRUE), len |-> n + 1]
    ELSE IF strict THEN [ret |-> RetBool(FALSE), len |-> n]
    ELSE IF n = 0 THEN [ret |-> Panic, len |-> n]
    ELSE [ret |-> RetBool(TRUE), len |-> n]

\* C14: Reset leaves no entry and keeps maxErrors and strictMode; Count,
\* HasErrors and Merge called next return 0, false and nil; and whatever
\* came before, an Add does what it does on a collector made anew with the
\* same configuration and as many entries
C14_ResetAndReuse ==
    [][/\ op'.name = "Reset"
            => /\ Len(errors') = 0
               /\ maxErrors' = maxErrors /\ strictMode' = strictMode
       /\ (op.name = "Reset" /\ op'.name = "Count") => ret' = RetInt(0)
       /\ (op.name = "Reset" /\ op'.name = "HasErrors") => ret' = RetBool(FALSE)
       /\ (op.name = "Reset" /\ op'.name = "Merge") => ret' = RetPtr(Nil)
       /\ op'.name = "Add"
            => /\ ret' = FreshAdd(maxErrors, strictMode, Len(errors), op'.arg).ret
               /\ Len(errors') = FreshAdd(maxErrors, strictMode, Len(errors), op'.arg).len
               /\ maxErrors' = maxErrors /\ strictMode' = strictMode]_vars

C14_Witness ==
    /\ op.name = "Reset" /\ op.arg.dropped >= 2
    /\ Len(errors) = 0 /\ strictMode /\ maxErrors >= 2

\* C16: no operation of the collector panics, whatever maxErrors and
\* strictMode are

\* C15: with maxErrors >= 1 the collector never holds more than maxErrors
\* entries, whatever the interleaving of the steps of Add, AddValidation,
\* AddFieldErrors, AddRetryable, Reset and Count of several workers
C15_CountWithinMaxErrors == maxErrors >= 1 => Len(errors) <= maxErrors
\* a full collector, an Add of one worker under way and another worker
\* having reset or waiting to lock
C15_Witness ==
    /\ maxErrors >= 1
    /\ Len(errors) = maxErrors
    /\ \E w \in Workers : pc[w] = "check"
    /\ \E w \in Workers : pc[w] = "lock"
    /\ \E w \in Workers : frame[w].calls > 0

C16_NoPanic == ret # Panic

\* what the mappers of a list make of the argument of a MapToError call:
\* the result of the first one that returns an Error
FirstMapped(arg, mappers) == MapLoop(mappers, 1, MapHeap(arg), 2, MapErr(arg), 1)

\* C24: MapToError(err, mappers) returns the result of the first mapper, in
\* list order, that yields an Error for err, also for an err that is an Error
\* already; only when no mapper matches it returns err itself if err is an
\* Error and else a wrapping Error with category internal, code 500 and text
\* code INTERNAL_ERROR
C24_FirstMapperWins ==
    [][(op'.name = "MapToError" /\ op'.arg.kind # "nil")
        => LET arg == op'.arg.err
               m == FirstMapped(arg, op'.arg.mappers)
           IN /\ ret'.kind = "ptr"
              /\ ret'.ptr # Nil
              /\ IF m.ptr # Nil THEN Deep(heap', ret'.ptr) = Deep(m.heap, m.ptr)
                 ELSE IF arg.kind = "built" THEN ret'.ptr = 1
                 ELSE /\ heap'.errs[ret'.ptr].Category = CategoryInternal
                      /\ heap'.errs[ret'.ptr].Code = 500
                      /\ heap'.errs[ret'.ptr].TextCode = "INTERNAL_ERROR"
                      /\ heap'.errs[ret'.ptr].Source = MapErr(arg)]_vars

\* C25: with DefaultErrorMappers() an error that MapOnboardingErrors matches
\* gets the onboarding text code, also when MapAuthErrors matches it or it
\* has a StatusCode(); an error that MapAuthErrors matches and the onboarding
\* mapper does not gets the auth text code, also when it has a StatusCode()
C25_SpecificMapperWins ==
    [][(/\ op'.name = "MapToError"
        /\ op'.arg.kind # "nil"
        /\ op'.arg.mappers = DefaultErrorMappers)
        => LET arg == op'.arg.err
               onb == MapOnboardingErrors(MapHeap(arg), 2, MapErr(arg), 1)
               auth == MapAuthErrors(MapHeap(arg), 2, MapErr(arg), 1)
           IN /\ onb.ptr # Nil
                  => /\ ret'.kind = "ptr" /\ ret'.ptr # Nil
                     /\ heap'.errs[ret'.ptr].TextCode = onb.heap.errs[onb.ptr].TextCode
              /\ (onb.ptr = Nil /\ auth.ptr # Nil)
                  => /\ ret'.kind = "ptr" /\ ret'.ptr # Nil
                     /\ heap'.errs[ret'.ptr].TextCode = auth.heap.errs[auth.ptr].TextCode]_vars

\* C26: a nil error is a silent input: Wrap(nil, ...) and
\* WrapRetryable(nil, ...) return nil and MapToError(nil, mappers) returns
\* without a panic for every mapper list
C26_NilIsSilent ==
    [][/\ (op'.name = "Wrap" /\ op'.arg.kind = "nil") => ret' = RetPtr(Nil)
       /\ (op'.name = "WrapRetryable" /\ op'.arg.source = NoError)
            => retryErr' = NoRetryable
       /\ (op'.name = "MapToError" /\ op'.arg.kind = "nil") => ret' # Panic]_vars

\* a is what is left of b when some of its elements are taken out
RECURSIVE IsSubsequence(_, _)
IsSubsequence(a, b) ==
    IF a = <<>> THEN TRUE
    ELSE IF b = <<>> THEN FALSE
    ELSE IF Head(a) = Head(b) THEN IsSubsequence(Tail(a), Tail(b))
    ELSE IsSubsequence(a, Tail(b))

\* the entries of the wanted severities, in collection order
EntriesOfSeverity(h, errs, wanted) ==
    SelectSeq(errs, LAMBDA e : h.errs[e].Severity \in wanted)

\* C22: FilterBySeverity(min) returns exactly the entries whose severity is
\* >= min, in collection order; for min1 <= min2 the result for min2 is a
\* subsequence of the one for min1, and FilterBySeverity(Debug) is every entry
C22_FilterBySeverity ==
    [][(op'.name = "FilterBySeverity" /\ ret' # Panic)
        => /\ ret'.elems = EntriesOfSeverity(heap', errors',
                                             op'.arg.min..SeverityFatal)
           /\ \A min1 \in Severities :
                IsSubsequence(ret'.elems, FilterBySeverity(heap', errors', min1))
                \/ min1 > op'.arg.min
           /\ FilterBySeverity(heap', errors', SeverityDebug) = errors']_vars
\* a filter at Critical that kept one entry of two
C22_Witness ==
    /\ op.name = "FilterBySeverity"
    /\ op.arg.min = SeverityCritical
    /\ Len(errors) = 2
    /\ ret.kind = "slice"
    /\ Len(ret.elems) = 1
    /\ heap.errs[ret.elems[1]].Severity = SeverityCritical

\* C23: GetRetryableErrors() returns exactly the entries whose severity is
\* strictly below Critical, in collection order, whatever the flag of the
\* RetryableError an entry came from, and HasRetryableErrors() is true
\* exactly when that result is not empty
C23_BatchRetryabilityBySeverity ==
    [][/\ (op'.name = "GetRetryableErrors" /\ ret' # Panic)
            => ret'.elems = EntriesOfSeverity(heap', errors',
                                              SeverityDebug..SeverityError)
       /\ (op'.name = "HasRetryableErrors" /\ ret' # Panic)
            => ret'.ok = (EntriesOfSeverity(heap', errors',
                                            SeverityDebug..SeverityError) # <<>>)]_vars
\* the entry of a non-retryable decorator of severity Error is returned while
\* a Critical entry is left out
C23_Witness ==
    /\ op.name = "GetRetryableErrors"
    /\ ret.kind = "slice"
    /\ Len(errors) = 2
    /\ Len(ret.elems) = 1
    /\ heap.errs[ret.elems[1]].Message = "do not retry"
    /\ heap.errs[ret.elems[1]].Severity = SeverityError

RECURSIVE Pow2(_)
Pow2(n) == IF n <= 0 THEN 1 ELSE 2 * Pow2(n - 1)
Backoff(base, attempt) ==
    IF attempt <= 0 THEN base ELSE Min(base * Pow2(attempt - 1), MaxDelay)

\* C18: RetryDelay(attempt) is baseDelay for attempt <= 0 and
\* min(baseDelay * 2^(attempt-1), 30s) for attempt >= 1; with a base delay of
\* 1s the attempts 0..5 give 1s, 1s, 2s, 4s, 8s, 16s and every attempt >= 6
\* gives 30s
C18_RetryDelayIsCappedBackoff ==
    [][op'.name = "RetryDealy"
        => /\ ret'.d = Backoff(retryErr.baseDelay, op'.arg.attempt)
           /\ retryErr.baseDelay = Second
               => ret'.d = CASE op'.arg.attempt <= 1 -> Second
                             [] op'.arg.attempt = 2 -> 2 * Second
                             [] op'.arg.attempt = 3 -> 4 * Second
                             [] op'.arg.attempt = 4 -> 8 * Second
                             [] op'.arg.attempt = 5 -> 16 * Second
                             [] OTHER -> 30 * Second]_vars
\* the sixth attempt of a one-second base delay has been asked for and capped
C18_Witness ==
    /\ op.name = "RetryDealy"
    /\ op.arg.attempt = 6
    /\ retryErr.baseDelay = Second
    /\ ret = RetDuration(30 * Second)

\* C19: for every base delay set through WithRetryDelay, RetryDelay never
\* decreases as the attempt grows and never exceeds 30 seconds, attempts <= 0
\* included
C19_RetryDelayMonotoneAndCapped ==
    HoldsRetryable =>
        /\ \A k \in Attempts : RetryDealy(retryErr, k) <= MaxDelay
        /\ \A k, kk \in Attempts :
            k <= kk => RetryDealy(retryErr, k) <= RetryDealy(retryErr, kk)

\* C20: a RetryableError made by NewRetryable answers IsRetryable() with
\* false once its severity is Critical or Fatal and with true below Critical
C20_IsRetryableFollowsSeverity ==
    [][(op'.name = "IsRetryable" /\ retryErr.retryable)
        => ret'.ok = (GetSeverity(heap, retryErr.BaseError) < SeverityCritical)]_vars

\* C17: in strict mode, whenever Add, AddValidation, AddFieldErrors or
\* AddRetryable offers an error to a full collector and the error is not
\* stored, the call reports the failure to its caller
C17_StrictRefusalIsReported ==
    [][(/\ op'.name \in {"Add", "AddValidation", "AddFieldErrors", "AddRetryable"}
        /\ IF op'.name = "Add" THEN op'.arg.kind # "nil" ELSE Offers(op'.arg)
        /\ strictMode
        /\ Len(errors) >= maxErrors
        /\ Contents(heap', errors') = Contents(heap, errors))
       => ret' = RetBool(FALSE)]_vars

-----------------------------------------------------------------------------
(* properties of Merge *)

\* C4: Merge returns nil on an empty collector; on a collector holding
\* exactly one entry it returns a distinct pointer with the entry's content,
\* and no write through the returned Error (to its fields, its metadata, its
\* validation errors or anything else it refers to) changes the entry held
C4_MergeSingleIsIndependentClone ==
    [][/\ (op'.name = "Merge" /\ Len(errors) = 0) => ret' = RetPtr(Nil)
       /\ (op'.name = "Merge" /\ Len(errors) = 1 /\ ret'.kind = "ptr")
            => /\ ret'.ptr # Nil
               /\ ret'.ptr # errors'[1]
               /\ Deep(heap', ret'.ptr) = Deep(heap', errors'[1])
       /\ (op'.name = "Mutate" /\ Len(errors) = 1)
            => Contents(heap', errors') = Contents(heap, errors)]_vars

\* C4 as it holds: Merge returns nil on an empty collector; on a collector
\* holding exactly one entry it returns a distinct pointer with the entry's
\* content, and no write to the returned Error's own fields, to its metadata
\* or to its validation errors changes the entry held
C4_MergeSingleIsCloneOfContainers ==
    [][/\ (op'.name = "Merge" /\ Len(errors) = 0) => ret' = RetPtr(Nil)
       /\ (op'.name = "Merge" /\ Len(errors) = 1 /\ ret'.kind = "ptr")
            => /\ ret'.ptr # Nil
               /\ ret'.ptr # errors'[1]
               /\ Deep(heap', ret'.ptr) = Deep(heap', errors'[1])
       /\ (op'.name = "Mutate" /\ Len(errors) = 1
           /\ op'.arg.kind \in {"Message", "Metadata", "ValidationErrors"})
            => Contents(heap', errors') = Contents(heap, errors)]_vars

C4_Witness ==
    /\ op.name = "Mutate" /\ Len(errors) = 1 /\ ret.kind = "ptr" /\ ret.ptr # errors[1]
    /\ Deep(heap, ret.ptr).Message # Deep(heap, errors[1]).Message
    /\ Deep(heap, ret.ptr).Metadata # Deep(heap, errors[1]).Metadata
    /\ Deep(heap, ret.ptr).ValidationErrors # Deep(heap, errors[1]).ValidationErrors

\* C5: with two or more entries, the severity of the Error Merge returns,
\* and of the Error inside the response of ToErrorResponse, is the maximum
\* of the entries' severities
C5_SummarySeverityIsMaximum ==
    Summarised => heap.errs[Summary].Severity = MaxOf(HeldSeverities)

C5_Witness ==
    /\ Summarised
    /\ heap.errs[Summary].Severity # DefaultSeverity
    /\ \E i \in Held : heap.errs[errors[i]].Severity < heap.errs[Summary].Severity

\* C6: with two or more entries, the category of the Error Merge returns is
\* one that occurs most often among the entries held, and it is the category
\* MostCommonCategory() returns in that state
C6_MergeCategoryIsMostCommon ==
    [][(Merged /\ op'.name = "MostCommonCategory" /\ ret'.kind = "category")
        => (/\ heap.errs[Summary].Category \in MostFrequent
            /\ ret'.category = heap.errs[Summary].Category)]_vars

\* C7: when two or more categories share the highest count, and when the
\* collector is empty, MostCommonCategory() returns internal
C7_TiesResolveToInternal ==
    (op.name = "MostCommonCategory" /\ ret.kind = "category"
     /\ Cardinality(MostFrequent) # 1)
        => ret.category = CategoryInternal

\* C8: with two or more entries, the metadata of the Error Merge returns has
\* error_count equal to the number of entries, category_stats and
\* severity_stats equal to the counts per category and per severity, and
\* aggregated_at equal to the timestamp of the first entry held
C8_MergeMetadata ==
    Merged =>
        LET meta == MetadataOf(heap, Summary)
        IN /\ meta.error_count = Len(errors)
           /\ DOMAIN meta.category_stats = HeldCategories
           /\ \A c \in HeldCategories : meta.category_stats[c] = CountOfCategory(c)
           /\ DOMAIN meta.severity_stats = HeldSeverities
           /\ \A s \in HeldSeverities : meta.severity_stats[s] = CountOfSeverity(s)
           /\ meta.aggregated_at = heap.errs[errors[1]].Timestamp

C8_Witness ==
    /\ Merged
    /\ Cardinality(HeldCategories) >= 2
    /\ MetadataOf(heap, Summary).aggregated_at # heap.errs[Summary].Timestamp
    /\ heap.errs[errors[1]].Timestamp # heap.errs[errors[Len(errors)]].Timestamp

\* the number of validation errors of the entries before the i-th
RECURSIVE Offset(_)
Offset(i) ==
    IF i <= 1 THEN 0
    ELSE Offset(i - 1) + Len(ValidationErrorsOf(heap, errors[i - 1]))

\* C9: with two or more entries, the validation errors of the Error Merge
\* returns are the entries' lists one after another in collection order:
\* as many as the lists hold together, none dropped, moved or merged
C9_MergeValidationConcatenation ==
    Merged =>
        LET all == ValidationErrorsOf(heap, Summary)
        IN /\ Len(all) = Offset(Len(errors) + 1)
           /\ \A i \in Held :
                \A j \in 1..Len(ValidationErrorsOf(heap, errors[i])) :
                    all[Offset(i) + j] = ValidationErrorsOf(heap, errors[i])[j]

C9_Witness ==
    /\ Merged
    /\ LET all == ValidationErrorsOf(heap, Summary)
       IN /\ Len(all) >= 3
          /\ \E i, j \in 1..Len(all) : i < j /\ all[i] = all[j]
    /\ \E i \in Held : ValidationErrorsOf(heap, errors[i]) = <<>>

\* what two summaries are compared by
SummaryView(h, p) ==
    [Category |-> h.errs[p].Category,
     Severity |-> h.errs[p].Severity,
     ErrorCount |-> IF "error_count" \in DOMAIN MetadataOf(h, p)
                    THEN <<MetadataOf(h, p).error_count>> ELSE <<>>,
     ValidationErrors |-> ValidationErrorsOf(h, p)]

\* C10: Merge changes neither the number nor the content of the entries
\* held, and two Merge calls with no call in between return summaries with
\* the same category, severity, error_count and validation errors
C10_MergeIsPureAndRepeatable ==
    [][op'.name = "Merge"
        => (/\ Contents(heap', errors') = Contents(heap, errors)
            /\ (op.name = "Merge" /\ Summary # Nil /\ Summary' # Nil)
                => SummaryView(heap', Summary') = SummaryView(heap, Summary))]_vars

-----------------------------------------------------------------------------
(* properties of the validation errors of an Error *)

\* the message of the last field error of `fields` that names `field`
LastMessage(fields, field) ==
    LET last == CHOOSE i \in 1..Len(fields) :
                    /\ fields[i].Field = field
                    /\ \A j \in (i + 1)..Len(fields) : fields[j].Field # field
    IN fields[last].Message
FieldNames(fields) == {fields[i].Field : i \in 1..Len(fields)}

\* the map ValidationMap has just returned
ReturnedMap == heap'.maps[ret'.ptr]

\* the Error the caller holds has no source
NoSource == heap.errs[Subject].Source = NoError

\* C27: for an Error without a source ValidationMap() has one key for each
\* distinct field name, mapped to the message of the last field error of that
\* name; AllValidationErrors() returns every field error in the original
\* order, duplicates included; the map is a new one every time: it is no map
\* the Error holds, and a write to a returned map changes neither the Error
\* nor what ValidationMap() gives afterwards.
C27_ValidationMapLastWins ==
    [][/\ (op'.name = "ValidationMap" /\ NoSource)
            => LET fields == ValidationErrorsOf(heap, Subject)
               IN /\ ret'.kind = "map"
                  /\ DOMAIN ReturnedMap = FieldNames(fields)
                  /\ \A f \in FieldNames(fields) :
                        ReturnedMap[f] = LastMessage(fields, f)
                  /\ Cardinality(DOMAIN ReturnedMap) = Cardinality(FieldNames(fields))
                  /\ ret'.ptr # heap'.errs[Subject].Metadata
                  /\ (op.name \in {"ValidationMap", "WriteMap"} => ret'.ptr # ret.ptr)
                  /\ Deep(heap', Subject) = Deep(heap, Subject)
       /\ (op'.name = "AllValidationErrors" /\ NoSource)
            => ret' = RetFields(ValidationErrorsOf(heap, Subject))
       /\ (op'.name = "WriteMap" /\ NoSource)
            => /\ Deep(heap', Subject) = Deep(heap, Subject)
               /\ ValidationMap(heap', Subject) = ValidationMap(heap, Subject)]_vars

\* an Error with a duplicated field name and no source has been read into a
\* map, the map written to, and the Error read again
C27_Witness ==
    /\ op.name = "ValidationMap"
    /\ Subject # Nil
    /\ heap.errs[Subject].Source = NoError
    /\ Len(ValidationErrorsOf(heap, Subject)) = 2
    /\ heap.maps[ret.ptr] = ("email" :> "required")
    /\ \E p \in heap.live \ {ret.ptr} : heap.maps[p] = ("email" :> "changed")

\* the Errors of the chain of e, e first
RECURSIVE Chain(_, _)
Chain(h, e) ==
    IF h.errs[e].Source.kind = "error"
    THEN <<e>> \o Chain(h, h.errs[e].Source.ptr)
    ELSE <<e>>

\* the source chain of the Error the caller holds is made of Errors only
ChainOfErrors ==
    LET c == Chain(heap, Subject)
    IN heap.errs[c[Len(c)]].Source = NoError

\* k repetitions of "source."
RECURSIVE SourcePath(_)
SourcePath(k) == IF k = 0 THEN "" ELSE "source." \o SourcePath(k - 1)

RECURSIVE Flatten(_, _, _)
Flatten(h, c, i) ==
    IF i > Len(c) THEN <<>>
    ELSE ValidationErrorsOf(h, c[i]) \o Flatten(h, c, i + 1)

\* C28: for an Error whose source chain is made of Errors, ValidationMap()
\* returns, and holds each field of the Error k levels down the chain under k
\* repetitions of "source." followed by the field name, with the message that
\* level gives it, and nothing else: own and nested fields do not collide;
\* AllValidationErrors() returns the own field errors followed by those of
\* each deeper level in the order of the chain.
C28_NestedFieldsUnderSourcePath ==
    [][/\ (op'.name = "ValidationMap" /\ ChainOfErrors)
            => LET c == Chain(heap, Subject)
               IN /\ ret'.kind = "map"
                  /\ \A k \in 0..(Len(c) - 1) :
                        LET fields == ValidationErrorsOf(heap, c[k + 1])
                        IN \A f \in FieldNames(fields) :
                              /\ (SourcePath(k) \o f) \in DOMAIN ReturnedMap
                              /\ ReturnedMap[SourcePath(k) \o f] = LastMessage(fields, f)
                  /\ DOMAIN ReturnedMap =
                        UNION {{SourcePath(k) \o f :
                                    f \in FieldNames(ValidationErrorsOf(heap, c[k + 1]))} :
                               k \in 0..(Len(c) - 1)}
       /\ (op'.name = "AllValidationErrors" /\ ChainOfErrors)
            => ret' = RetFields(Flatten(heap, Chain(heap, Subject), 1))]_vars

-----------------------------------------------------------------------------
(* properties of Wrap and Clone *)

\* the cells the caller's Errors use before the call
InUse(roots) == Collect(heap, roots).live

\* C29: Wrap(source, category, message) of an Error returns a new Error, not
\* the Error it was given, which is left as it was; the result is the Error's
\* copy but for its message, which is message + ": " + the Error's message;
\* its location is the Error's location and its validation errors are the
\* Error's; its source is the Error's source and not the Error, so its source
\* chain is as deep as the Error's, also when a result is wrapped again.
C29_WrapOfErrorIsPrefixedClone ==
    [][op'.name = "Wrap"
        => LET s == op'.arg.source
               q == ret'.ptr
           IN /\ ret'.kind = "ptr"
              /\ q \notin InUse({Subject, s}) \cup {Nil}
              /\ Deep(heap', s) = Deep(heap, s)
              /\ Deep(heap', Subject) = Deep(heap, Subject)
              /\ heap'.errs[q].Message = "context: " \o heap.errs[s].Message
              /\ Deep(heap', q) = [Deep(heap, s) EXCEPT !.Message = "context: " \o @]
              /\ heap'.errs[q].Location = heap.errs[s].Location
              /\ ValidationErrorsOf(heap', q) = ValidationErrorsOf(heap, s)
              /\ heap'.errs[q].Source # ErrorValue(s)
              /\ heap'.errs[q].Source = heap.errs[s].Source
              /\ Len(Chain(heap', q)) = Len(Chain(heap, s))]_vars

\* an Error with field errors and an Error as source has been wrapped, and
\* the result wrapped again
C29_Witness ==
    /\ op.name = "Wrap"
    /\ op.arg.source # Subject
    /\ ret.kind = "ptr"
    /\ heap.errs[ret.ptr].Message = "context: context: Validation failed"
    /\ Len(ValidationErrorsOf(heap, ret.ptr)) = 2
    /\ Len(Chain(heap, ret.ptr)) = 2
    /\ heap.errs[Subject].Message = "Validation failed"

\* the Error of the two the caller holds that a statement does not write to
Other(target) == IF target = Subject THEN ret.ptr ELSE Subject

\* Clone returns a distinct Error equal to the original field by field, and
\* no statement on the validation errors or the metadata of one of the two
\* changes the other
CloneIsIndependent ==
    /\ op'.name = "Clone"
        => LET q == ret'.ptr
           IN /\ ret'.kind = "ptr"
              /\ q \notin InUse({Subject}) \cup {Nil}
              /\ Deep(heap', q) = Deep(heap, Subject)
              /\ Deep(heap', Subject) = Deep(heap, Subject)
              /\ heap'.errs[q].Source = heap.errs[Subject].Source
    /\ (op'.name = "Write" /\ op'.arg.of = "Clone")
        => Deep(heap', Other(op'.arg.target)) = Deep(heap, Other(op'.arg.target))

\* the clone has no ErrorLocation and no stack frames in common with the
\* original
SharesOnlySource ==
    op'.name = "Clone"
        => /\ heap'.errs[ret'.ptr].Location # Nil
                => heap'.errs[ret'.ptr].Location # heap'.errs[Subject].Location
           /\ heap'.errs[ret'.ptr].StackTrace # Nil
                => heap'.errs[ret'.ptr].StackTrace # heap'.errs[Subject].StackTrace

\* C30 as stated: Clone() of an Error returns a distinct Error equal to it
\* field by field; afterwards adding, removing or replacing validation errors
\* or metadata keys on the clone or on the original never changes the other;
\* and the two share nothing but the source.
C30_CloneSharesOnlySource ==
    [][CloneIsIndependent /\ SharesOnlySource]_vars

\* C30 as amended: Clone() of an Error returns a distinct Error equal to it
\* field by field; afterwards adding, removing or replacing validation errors
\* or metadata keys on the clone or on the original never changes the other;
\* the two have their own validation-error array and metadata map, and share
\* the source, the ErrorLocation and the frames of the stack trace.
C30_CloneCopiesContainersOnly ==
    [][/\ CloneIsIndependent
       /\ op'.name = "Clone"
            => LET c == heap'.errs[ret'.ptr]
                   e == heap'.errs[Subject]
               IN /\ c.Location = e.Location
                  /\ c.StackTrace = e.StackTrace
                  /\ c.Source = e.Source
                  /\ (e.ValidationErrors # Nil
                        => c.ValidationErrors \notin {Nil, e.ValidationErrors})
                  /\ (e.ValidationErrors = Nil => c.ValidationErrors = Nil)
                  /\ (e.Metadata # Nil => c.Metadata \notin {Nil, e.Metadata})
                  /\ (e.Metadata = Nil => c.Metadata = Nil)]_vars

\* after a Clone of an Error with field errors and metadata, the clone and
\* the original have been written to and differ in both
C30_Witness ==
    /\ op.name = "Write"
    /\ op.arg.of = "Clone"
    /\ frame[1].calls = MaxWrites
    /\ ValidationErrorsOf(heap, ret.ptr) # ValidationErrorsOf(heap, Subject)
    /\ MetadataOf(heap, ret.ptr) # MetadataOf(heap, Subject)
    /\ heap.errs[ret.ptr].Location = heap.errs[Subject].Location
    /\ heap.errs[Subject].Source.kind = "error"

-----------------------------------------------------------------------------
(* properties of the text of an Error *)

\* "f1: m1; f2: m2; ..." written from the last field error backwards
RECURSIVE FieldsText(_, _)
FieldsText(fields, n) ==
    IF n = 0 THEN ""
    ELSE (IF n = 1 THEN "" ELSE FieldsText(fields, n - 1) \o "; ")
         \o fields[n].Field \o ": " \o fields[n].Message

\* the text the rendering rule gives the Error built from arg
RenderedText(arg, verbose) ==
    "[validation" \o (IF arg.TextCode = "" THEN "" ELSE ":" \o arg.TextCode) \o "] "
    \o "multiple validation failures"
    \o (IF arg.Fields = <<>> THEN ""
        ELSE "; validation: " \o FieldsText(arg.Fields, Len(arg.Fields)))
    \o (CASE arg.Source = "nil" -> ""
          [] arg.Source = "foreign" -> "; source: upstream validation failed"
          [] OTHER -> "; source: [internal] database error; source: connection failed")
    \o (CASE arg.Items = 0 -> ""
          [] arg.Items = 1 -> "; metadata: 1 items"
          [] OTHER -> "; metadata: 2 items")
    \o (IF verbose /\ arg.Located THEN "; location: user.go:1" ELSE "")

\* C31: Error() is "[category] message", or "[category:textCode] message" for
\* a non-empty text code, followed, each only when present, each after "; "
\* and in this order, by "validation: " and the field errors as
\* "field: message" joined by "; ", "source: " and the text of the cause,
\* "metadata: N items", and, in verbose mode with a location set,
\* "location: file:line".
C31_ErrorText ==
    [][op'.name = "Error"
        => ret' = RetString(RenderedText(op'.arg.err, Verbose))]_vars

\* the complex Error of the tests has been rendered in verbose mode
C31_Witness ==
    /\ op.name = "Error"
    /\ Verbose
    /\ ret.kind = "string"
    /\ ret.s = "[validation:VALIDATION_ERROR] multiple validation failures; validation: name: required; source: upstream validation failed; metadata: 1 items; location: user.go:1"

\* where a call is about to acquire c.mu, and where no call is running
AcquirePoints == {"idle", "dead", "lock", "log.attrs"}

\* C32: every operation of the collector that a worker invokes returns, under
\* every interleaving and fair scheduling: a call that is about to acquire c.mu
\* does not hold it, a worker that has returned holds nothing, and a worker
\* inside a call comes to be outside it (returned, or unwound by a panic with
\* its deferred unlock run)
C32_EveryOperationReturns ==
    /\ [](\A w \in Workers : pc[w] \in AcquirePoints \cup {"log.write"} => ~Holding(w))
    /\ \A w \in Workers : (pc[w] \notin {"idle", "dead"}) ~> (pc[w] \in {"idle", "dead"})

\* a reader is in the body of a read operation while an adder waits for the
\* lock, and another state where LogErrors is between its two read sections
C32_Witness ==
    /\ \E w \in Readers : pc[w] = BodyOf("Merge") /\ Holding(w)
    /\ \E w \in Adders : pc[w] = "lock" /\ ~Holding(w)
    /\ \E w \in Adders : pc[w] = "idle" /\ frame[w].calls > 0


\* C33: every write to what the collector owns, its entry sequence and the
\* entries stored in it, is made under the exclusive lock: a step that changes
\* either is the step of a worker that holds c.mu for writing
C33_WritesUnderExclusiveLock ==
    [][(errors' # errors \/ Contents(heap', errors) # Contents(heap, errors))
           => mu.writer # Nil]_vars

\* the writes of Add and Reset are made under the exclusive lock
C33_AddAndResetWriteUnderLock ==
    [][errors' # errors => mu.writer # Nil /\ pc'[mu.writer] \in {"load", "unlock"}]_vars

\* a reader is in the body of ToErrorResponse(false) while the collector holds
\* one entry that has a stack trace
C33_Witness ==
    \E w \in Readers :
        /\ pc[w] = BodyOf("ToErrorResponse(false)")
        /\ Len(errors) = 1
        /\ heap.errs[errors[1]].StackTrace # Nil

\* the body of ToErrorResponse(includeStack) is run by some worker
ResponseStep(includeStack) ==
    \E w \in Workers :
        /\ pc[w] = BodyOf(IF includeStack THEN "ToErrorResponse(true)"
                          ELSE "ToErrorResponse(false)")
        /\ pc'[w] = "release"

\* C34: ToErrorResponse(includeStack) leaves the collector as it was, for
\* either value of includeStack and any number of entries: the same entries in
\* the same order, each with every field it had, the stack trace included
C34_ToErrorResponseLeavesCollectorUnchanged ==
    [][ResponseStep(TRUE) \/ ResponseStep(FALSE)
           => errors' = errors /\ Contents(heap', errors') = Contents(heap, errors)]_vars

\* with the stack asked for, and with no entry or more than one, nothing changes
C34_UnchangedWithStackOrNotSingle ==
    [][(ResponseStep(TRUE) \/ (ResponseStep(FALSE) /\ Len(errors) # 1))
           => errors' = errors /\ Contents(heap', errors') = Contents(heap, errors)]_vars

\* the sum of the counts of a statistics map
RECURSIVE SumOf(_)
SumOf(stats) ==
    IF DOMAIN stats = {} THEN 0
    ELSE LET k == CHOOSE x \in DOMAIN stats : TRUE
         IN stats[k] + SumOf([x \in DOMAIN stats \ {k} |-> stats[x]])

\* what the call just made returned agrees with the number of entries
AgreesWithCount ==
    /\ op.name = "HasErrors" => ret = RetBool(Len(errors) > 0)
    /\ op.name = "Count" => ret = RetInt(Len(errors))
    /\ op.name \in {"CategoryStats", "SeverityDistribution"}
           => /\ ret.kind = "stats"
              /\ SumOf(ret.stats) = Len(errors)
              /\ \A k \in DOMAIN ret.stats : ret.stats[k] > 0

\* C35: in every reachable state HasErrors() is true exactly when Count() is
\* above zero, the counts of CategoryStats() and of SeverityDistribution() each
\* add up to Count(), and neither map has a key with the count zero
C35_StatisticsAgreeWithCount == AgreesWithCount

\* the same for a collector that holds no nil entry
C35_AgreeWithoutNilEntry == ~HasNilEntry(errors) => AgreesWithCount

\* C36: every entry the collector holds is an Error, never a nil pointer,
\* whatever was handed to Add, so that Errors() holds no nil and no statistic,
\* filter or Merge meets an entry it cannot read
C36_EveryEntryIsAnError ==
    /\ ~HasNilEntry(errors)
    /\ op.name \in {"CategoryStats", "SeverityDistribution", "MostCommonCategory",
                    "FilterByCategory", "Merge"} => ret # Panic

\* Add of the nil interface stores nothing, and an Add of anything else but a
\* nil Error pointer stores an Error
C36_OtherAddsStoreErrors ==
    [][op'.name = "Add" /\ op'.arg # TypedNilArg /\ ~HasNilEntry(errors)
           => /\ ~HasNilEntry(errors')
              /\ op'.arg.kind = "nil" => Len(errors') = Len(errors) /\ ret' = RetBool(TRUE)]_vars

\* the collector has room for one more entry
NonFull == Len(errors) < maxErrors

\* AddRetryable has stored one entry behind the entries that were there
OneEntryAdded ==
    /\ Len(errors') = Len(errors) + 1
    /\ Contents(heap', SubSeq(errors', 1, Len(errors))) = Contents(heap, errors)

\* C37: AddRetryable(err, category, message) on a collector that is not full
\* adds exactly one entry, and the category of that entry is the category
\* argument, whether err is nil, a foreign error or an Error of another category
C37_AddRetryableCategory ==
    [][op'.name = "AddRetryable" /\ NonFull
           => /\ OneEntryAdded
              /\ heap'.errs[errors'[Len(errors')]].Category = op'.arg.category]_vars

\* one entry is added whatever err is; its category is the argument when err is
\* nil or foreign, and the category of err when err is an Error
C37_CategoryOfErrorKept ==
    [][op'.name = "AddRetryable" /\ NonFull
           => /\ OneEntryAdded
              /\ heap'.errs[errors'[Len(errors')]].Category =
                     IF op'.arg.source = "error" THEN op'.arg.own
                     ELSE op'.arg.category]_vars

====
